---- MODULE Spec2Model ----
(***************************************************************************)
(* Model of the FinalShell activation-code bot: the core that derives the  *)
(* codes (src/src/finalshell.rs, src/src/models.rs) and the Telegram bot   *)
(* that serves them (src/src/bot.rs, src/src/database.rs,                  *)
(* src/src/config.rs, src/src/utils.rs).                                   *)
(*                                                                         *)
(* A Rust &str is modelled as a sequence of one-character strings. An      *)
(* ASCII character is itself; any other character, and the backtick, is    *)
(* the one element named by its code point ("U+2265"). The label of        *)
(* detect_version written with U+2265, kept whole as one string, is        *)
(* written ">= 3.9.6".                                                     *)
(***************************************************************************)
EXTENDS Integers, Sequences, FiniteSets, TLC

VARIABLES
  machine_code,   \* the &str argument of the call under study
  valid,          \* Option<bool>: what validate_machine_code returned
  cleaned,        \* Option<String>: what clean_machine_code returned
  recleaned,      \* Option<String>: clean_machine_code of that result
  version,        \* Option<FinalShellVersion>: what detect_version returned
  results,        \* the Vec<ActivationResult> generate_all is filling
  all_ret,        \* Option<Result<Vec<ActivationResult>>>: what generate_all returned
  gen_ret,        \* Option<Result<(String, FinalShellVersion)>>: what generate returned
  hashed,         \* the calc_md5 / calc_keccak384 calls generate_all made, in order
  gen_hashed,     \* the calc_md5 / calc_keccak384 calls generate made, in order
  now,            \* the system clock (chrono::Utc::now), in whole seconds
  calls,          \* the calls of the core a caller has made so far, with what they returned
  thread,         \* per thread: the call of the core it is in, its position and return value
  vec,            \* per vector: the contents of a Vec<ActivationResult> of generate_all
  users,          \* table users: per user_id the row, if any (is_banned, request_count)
  activation_logs,\* table activation_logs: the rows, in insertion order
  log_files,      \* the log files of the working directory
  dialogue,       \* InMemStorage<State>: per chat the dialogue state
  handler,        \* per chat: the update being handled, the position of its handler
  received,       \* updates received so far
  served,         \* per user: responses with codes sent since request_count was last reset
  prompted        \* per chat: the message the last confirmation prompt of /say showed

normalizer_vars == << valid, cleaned, recleaned >>
derive_vars == << results, all_ret, gen_ret, hashed, gen_hashed >>
core_vars == << machine_code, normalizer_vars, version, derive_vars >>
call_vars == << now, calls >>
thread_vars == << thread, vec >>
db_vars == << users, activation_logs >>
bot_vars == << db_vars, log_files, dialogue, handler, received, served, prompted >>
caller_vars == << call_vars, thread_vars, bot_vars >>

vars == << core_vars, caller_vars >>

\* Option<T> as a sequence of at most one element
None == << >>
Some(x) == << x >>

\* ------------------------------------------------------------ bounds

\* longest raw input handed to the normalizer
MaxRawLen == 9
\* longest code handed to the classifier
MaxCodeLen == 27
\* most calls in the history of a caller
MaxCalls == 3
\* most seconds the clock advances
MaxTicks == 1
\* threads calling the core at the same time
MaxThreads == 2
\* most updates the bot receives
MaxUpdates == 2

\* ------------------------------------------------------------ characters

AsciiUppercase ==
  { "A", "B", "C", "D", "E", "F", "G", "H", "I", "J", "K", "L", "M",
    "N", "O", "P", "Q", "R", "S", "T", "U", "V", "W", "X", "Y", "Z" }

AsciiLowercase ==
  { "a", "b", "c", "d", "e", "f", "g", "h", "i", "j", "k", "l", "m",
    "n", "o", "p", "q", "r", "s", "t", "u", "v", "w", "x", "y", "z" }

AsciiDigit == { "0", "1", "2", "3", "4", "5", "6", "7", "8", "9" }

\* char::is_ascii_alphanumeric
is_ascii_alphanumeric(c) == c \in AsciiUppercase \cup AsciiLowercase \cup AsciiDigit

\* char::is_whitespace on the ASCII range: str::trim strips these;
\* "\f" (form feed) is whitespace that clean_machine_code does not remove
is_whitespace(c) == c \in { " ", "\t", "\n", "\f", "\r" }

\* ------------------------------------------------------------ str helpers

\* str::trim
trim(s) ==
  LET keep == { i \in 1..Len(s) : ~is_whitespace(s[i]) }
  IN IF keep = {} THEN << >>
     ELSE SubSeq(s, CHOOSE i \in keep : \A j \in keep : i <= j,
                    CHOOSE i \in keep : \A j \in keep : j <= i)

\* str::replace(c, "")
replace(s, c) == SelectSeq(s, LAMBDA x : x # c)

\* str::contains(c)
contains(s, c) == \E i \in 1..Len(s) : s[i] = c

\* ------------------------------------------------------------ evaluation

\* the element of a one-element set. Only({ e : x \in { v } }) is e with x
\* bound to the value of v, computed once: the operators below use their
\* arguments several times
Only(S) == CHOOSE r \in S : TRUE

\* ------------------------------------------------------------ bytes

\* the characters of codes 32..126 in order ("BACKTICK" stands for the
\* character of code 96, which cannot be written in a string here)
AsciiPrintable ==
  << " ", "!", "\"", "#", "$", "%", "&", "'", "(", ")", "*", "+", ",", "-", ".", "/",
     "0", "1", "2", "3", "4", "5", "6", "7", "8", "9", ":", ";", "<", "=", ">", "?",
     "@", "A", "B", "C", "D", "E", "F", "G", "H", "I", "J", "K", "L", "M", "N", "O",
     "P", "Q", "R", "S", "T", "U", "V", "W", "X", "Y", "Z", "[", "\\", "]", "^", "_",
     "BACKTICK", "a", "b", "c", "d", "e", "f", "g", "h", "i", "j", "k", "l", "m", "n", "o",
     "p", "q", "r", "s", "t", "u", "v", "w", "x", "y", "z", "{", "|", "}", "~" >>

\* the byte of an ASCII character
Ord(c) ==
  CASE c = "\t" -> 9
    [] c = "\n" -> 10
    [] c = "\f" -> 12
    [] c = "\r" -> 13
    [] OTHER -> 31 + (CHOOSE i \in 1..Len(AsciiPrintable) : AsciiPrintable[i] = c)

\* str::as_bytes
as_bytes(s) == Only({ SubSeq([i \in 1..Len(t) |-> Ord(t[i])], 1, Len(t)) : t \in { s } })

\* char::to_uppercase on ASCII
to_ascii_uppercase(c) ==
  IF c \in AsciiLowercase THEN AsciiPrintable[Ord(c) - 32 - 31] ELSE c

\* str::to_uppercase
to_uppercase(s) ==
  Only({ SubSeq([i \in 1..Len(t) |-> to_ascii_uppercase(t[i])], 1, Len(t)) : t \in { s } })

HexDigits ==
  << "0", "1", "2", "3", "4", "5", "6", "7", "8", "9", "a", "b", "c", "d", "e", "f" >>

\* one byte under format!("{:x}") of a digest: two lowercase hex digits
ByteHex(b) == << HexDigits[(b \div 16) + 1], HexDigits[(b % 16) + 1] >>

\* ------------------------------------------------------------ machine words
\* TLC's integers are 32-bit signed, so u32 and u64 values are kept as
\* 16-bit limbs.

\* bitwise AND of two 4-bit values, tabulated
AND4 ==
  SubSeq([a \in 1..16 |-> SubSeq([b \in 1..16 |->
     LET x == a - 1
         y == b - 1
     IN (x % 2) * (y % 2) + 2 * (((x \div 2) % 2) * ((y \div 2) % 2))
        + 4 * (((x \div 4) % 2) * ((y \div 4) % 2)) + 8 * ((x \div 8) * (y \div 8))],
     1, 16)], 1, 16)

And16(x, y) ==
  AND4[(x % 16) + 1][(y % 16) + 1]
  + 16 * AND4[((x \div 16) % 16) + 1][((y \div 16) % 16) + 1]
  + 256 * AND4[((x \div 256) % 16) + 1][((y \div 256) % 16) + 1]
  + 4096 * AND4[(x \div 4096) + 1][(y \div 4096) + 1]

Xor16(x, y) == x + y - 2 * And16(x, y)

Or16(x, y) == x + y - And16(x, y)

Not16(x) == 65535 - x

\* a u32 is << high 16 bits, low 16 bits >>
BitAnd(a, b) ==
  Only({ << And16(p[1][1], p[2][1]), And16(p[1][2], p[2][2]) >> : p \in { << a, b >> } })

BitOr(a, b) ==
  Only({ << Or16(p[1][1], p[2][1]), Or16(p[1][2], p[2][2]) >> : p \in { << a, b >> } })

BitXor(a, b) ==
  Only({ << Xor16(p[1][1], p[2][1]), Xor16(p[1][2], p[2][2]) >> : p \in { << a, b >> } })

BitNot(a) == Only({ << Not16(p[1]), Not16(p[2]) >> : p \in { a } })

\* u32::wrapping_add
wrapping_add(a, b) ==
  Only({ << (p[1][1] + p[2][1] + (p[1][2] + p[2][2]) \div 65536) % 65536,
            (p[1][2] + p[2][2]) % 65536 >>
         : p \in { << a, b >> } })

\* u32::rotate_left, 0 < s < 32
rotate_left(w, s) ==
  Only({ IF p[2] < 16
         THEN << (p[1][1] % p[4]) * p[3] + p[1][2] \div p[4],
                 (p[1][2] % p[4]) * p[3] + p[1][1] \div p[4] >>
         ELSE << (p[1][2] % p[4]) * p[3] + p[1][1] \div p[4],
                 (p[1][1] % p[4]) * p[3] + p[1][2] \div p[4] >>
         : p \in { << w, s, 2 ^ (s % 16), 2 ^ (16 - (s % 16)) >> } })

\* a u64 is 4 little-endian 16-bit limbs
Xor64(a, b) ==
  Only({ << Xor16(p[1][1], p[2][1]), Xor16(p[1][2], p[2][2]),
            Xor16(p[1][3], p[2][3]), Xor16(p[1][4], p[2][4]) >>
         : p \in { << a, b >> } })

\* (!a) & b
AndNot64(a, b) ==
  Only({ << And16(Not16(p[1][1]), p[2][1]), And16(Not16(p[1][2]), p[2][2]),
            And16(Not16(p[1][3]), p[2][3]), And16(Not16(p[1][4]), p[2][4]) >>
         : p \in { << a, b >> } })

\* u64::rotate_left, 0 <= r < 64
rotl64(a, r) ==
  Only({ SubSeq([j \in 1..4 |->
                   (p[1][((j - 1 - p[2] + 8) % 4) + 1] % p[4]) * p[3]
                   + p[1][((j - 2 - p[2] + 8) % 4) + 1] \div p[4]],
                1, 4)
         : p \in { << a, r \div 16, 2 ^ (r % 16), 2 ^ (16 - (r % 16)) >> } })

\* ------------------------------------------------------------ MD5 (crate md5)

\* floor(2^32 * abs(sin(i))), i = 1..64, as << high, low >>
MD5_K ==
  << <<55146, 42104>>, <<59591, 46934>>, <<9248, 28891>>, <<49597, 52974>>,
     <<62844, 4015>>, <<18311, 50730>>, <<43056, 17939>>, <<64838, 38145>>,
     <<27008, 39128>>, <<35652, 63407>>, <<65535, 23473>>, <<35164, 55230>>,
     <<27536, 4386>>, <<64920, 29075>>, <<42617, 17294>>, <<18868, 2081>>,
     <<63006, 9570>>, <<49216, 45888>>, <<9822, 23121>>, <<59830, 51114>>,
     <<54831, 4189>>, <<580, 5203>>, <<55457, 59009>>, <<59347, 64456>>,
     <<8673, 52710>>, <<49975, 2006>>, <<62677, 3463>>, <<17754, 5357>>,
     <<43491, 59653>>, <<64751, 41976>>, <<26479, 729>>, <<36138, 19594>>,
     <<65530, 14658>>, <<34673, 63105>>, <<28061, 24866>>, <<64997, 14348>>,
     <<42174, 59972>>, <<19422, 53161>>, <<63163, 19296>>, <<48831, 48240>>,
     <<10395, 32454>>, <<60065, 10234>>, <<54511, 12421>>, <<1160, 7429>>,
     <<55764, 53305>>, <<59099, 39397>>, <<8098, 31992>>, <<50348, 22117>>,
     <<62505, 8772>>, <<17194, 65431>>, <<43924, 9127>>, <<64659, 41017>>,
     <<25947, 22979>>, <<36620, 52370>>, <<65519, 62589>>, <<34180, 24017>>,
     <<28584, 32335>>, <<65068, 59104>>, <<41729, 17172>>, <<19976, 4513>>,
     <<63315, 32386>>, <<48442, 62005>>, <<10967, 53947>>, <<60294, 54161>> >>

\* per-round shift amounts
MD5_S ==
  << 7, 12, 17, 22, 7, 12, 17, 22, 7, 12, 17, 22, 7, 12, 17, 22,
     5, 9, 14, 20, 5, 9, 14, 20, 5, 9, 14, 20, 5, 9, 14, 20,
     4, 11, 16, 23, 4, 11, 16, 23, 4, 11, 16, 23, 4, 11, 16, 23,
     6, 10, 15, 21, 6, 10, 15, 21, 6, 10, 15, 21, 6, 10, 15, 21 >>


MD5_IV == << <<26437, 8961>>, <<61389, 43913>>, <<39098, 56574>>, <<4146, 21622>> >>

\* padding: 0x80, zeros up to 56 mod 64, then the bit length as 8
\* little-endian bytes
md5_pad(bytes) ==
  Only({ m \o <<128>> \o SubSeq([i \in 1..64 |-> 0], 1, (55 - Len(m)) % 64)
           \o << (8 * Len(m)) % 256, ((8 * Len(m)) \div 256) % 256,
                 ((8 * Len(m)) \div 65536) % 256, 0, 0, 0, 0, 0 >>
         : m \in { bytes } })

\* the 16 little-endian words of block b (from 0) of the padded message p
md5_block(p, b) ==
  SubSeq([j \in 1..16 |->
            << p[64 * b + 4 * (j - 1) + 4] * 256 + p[64 * b + 4 * (j - 1) + 3],
               p[64 * b + 4 * (j - 1) + 2] * 256 + p[64 * b + 4 * (j - 1) + 1] >>],
         1, 16)

\* round i (from 0) on the state st = << A, B, C, D >> with the block M
md5_step(st, M, i) ==
  LET F == CASE i < 16 -> BitOr(BitAnd(st[2], st[3]), BitAnd(BitNot(st[2]), st[4]))
             [] i >= 16 /\ i < 32 -> BitOr(BitAnd(st[4], st[2]), BitAnd(BitNot(st[4]), st[3]))
             [] i >= 32 /\ i < 48 -> BitXor(st[2], BitXor(st[3], st[4]))
             [] OTHER -> BitXor(st[3], BitOr(st[2], BitNot(st[4])))
      g == CASE i < 16 -> i
             [] i >= 16 /\ i < 32 -> (5 * i + 1) % 16
             [] i >= 32 /\ i < 48 -> (3 * i + 5) % 16
             [] OTHER -> (7 * i) % 16
  IN << st[4],
        wrapping_add(st[2],
          rotate_left(
            wrapping_add(wrapping_add(F, st[1]), wrapping_add(MD5_K[i + 1], M[g + 1])),
            MD5_S[i + 1])),
        st[2],
        st[3] >>

\* rounds lo..hi-1, lo < hi
RECURSIVE md5_rounds(_, _, _, _)
md5_rounds(st, M, lo, hi) ==
  IF hi = lo + 1 THEN md5_step(st, M, lo)
  ELSE Only({ md5_rounds(n[1], M, n[2], n[3])
              : n \in { << md5_rounds(st, M, lo, (lo + hi) \div 2), (lo + hi) \div 2, hi >> } })

\* one block M folded into the chaining value h
md5_compress(h, M) ==
  Only({ << wrapping_add(h[1], r[1]), wrapping_add(h[2], r[2]),
            wrapping_add(h[3], r[3]), wrapping_add(h[4], r[4]) >>
         : r \in { md5_rounds(h, M, 0, 64) } })

\* blocks b.. of the padded message p
RECURSIVE md5_blocks(_, _, _)
md5_blocks(h, p, b) ==
  IF 64 * b >= Len(p) THEN h
  ELSE Only({ md5_blocks(n[1], p, n[2])
              : n \in { << md5_compress(h, md5_block(p, b)), b + 1 >> } })

\* the 4 little-endian bytes of a u32 in hex
WordHexLE(w) ==
  ByteHex(w[2] % 256) \o ByteHex(w[2] \div 256) \o ByteHex(w[1] % 256) \o ByteHex(w[1] \div 256)

\* Md5::new(), update(bytes), finalize(), format!("{:x}")
md5_hex(bytes) ==
  Only({ WordHexLE(h[1]) \o WordHexLE(h[2]) \o WordHexLE(h[3]) \o WordHexLE(h[4])
         : h \in { md5_blocks(MD5_IV, md5_pad(bytes), 0) } })

\* ------------------------------------------------------------ Keccak-384 (crate sha3)

\* round constants, each 4 little-endian 16-bit limbs
KECCAK_RC ==
  << <<1, 0, 0, 0>>, <<32898, 0, 0, 0>>, <<32906, 0, 0, 32768>>,
     <<32768, 32768, 0, 32768>>, <<32907, 0, 0, 0>>, <<1, 32768, 0, 0>>,
     <<32897, 32768, 0, 32768>>, <<32777, 0, 0, 32768>>, <<138, 0, 0, 0>>,
     <<136, 0, 0, 0>>, <<32777, 32768, 0, 0>>, <<10, 32768, 0, 0>>,
     <<32907, 32768, 0, 0>>, <<139, 0, 0, 32768>>, <<32905, 0, 0, 32768>>,
     <<32771, 0, 0, 32768>>, <<32770, 0, 0, 32768>>, <<128, 0, 0, 32768>>,
     <<32778, 0, 0, 0>>, <<10, 32768, 0, 32768>>, <<32897, 32768, 0, 32768>>,
     <<32896, 0, 0, 32768>>, <<1, 32768, 0, 0>>, <<32776, 32768, 0, 32768>> >>

\* rotation offsets; lane (x, y) is at index x + 5y + 1
KECCAK_RHO ==
  << 0, 1, 62, 28, 27,
     36, 44, 6, 55, 20,
     3, 10, 43, 25, 39,
     41, 45, 15, 21, 8,
     18, 2, 61, 56, 14 >>

\* theta, C[x]: the parity of column x
keccak_theta_c(A) ==
  SubSeq([x \in 1..5 |->
            Xor64(A[x], Xor64(A[x + 5], Xor64(A[x + 10], Xor64(A[x + 15], A[x + 20]))))],
         1, 5)

\* theta, D[x] = C[x - 1] ^ rotl(C[x + 1], 1)
keccak_theta_d(C) ==
  Only({ SubSeq([x \in 1..5 |-> Xor64(c[((x + 3) % 5) + 1], rotl64(c[(x % 5) + 1], 1))], 1, 5)
         : c \in { C } })

\* theta: every lane xor-ed with D of its column
keccak_theta(A) ==
  Only({ SubSeq([n \in 1..25 |-> Xor64(A[n], D[((n - 1) % 5) + 1])], 1, 25)
         : D \in { keccak_theta_d(keccak_theta_c(A)) } })

\* rho and pi: B[y, 2x + 3y] = rotl(T[x, y], rho[x, y])
keccak_rho_pi(T) ==
  Only({ SubSeq([n \in 1..25 |->
                   rotl64(t[((((n - 1) % 5) + 3 * ((n - 1) \div 5)) % 5) + 5 * ((n - 1) % 5) + 1],
                          KECCAK_RHO[((((n - 1) % 5) + 3 * ((n - 1) \div 5)) % 5)
                                     + 5 * ((n - 1) % 5) + 1])],
                1, 25)
         : t \in { T } })

\* chi: B[x, y] ^ (!B[x + 1, y] & B[x + 2, y])
keccak_chi(B) ==
  Only({ SubSeq([n \in 1..25 |->
                   Xor64(b[n], AndNot64(b[((((n - 1) % 5) + 1) % 5) + 5 * ((n - 1) \div 5) + 1],
                                        b[((((n - 1) % 5) + 2) % 5) + 5 * ((n - 1) \div 5) + 1]))],
                1, 25)
         : b \in { B } })

\* iota: the round constant into lane (0, 0)
keccak_iota(E, i) ==
  Only({ << Xor64(e[1], KECCAK_RC[i]) >> \o SubSeq(e, 2, 25) : e \in { E } })

keccak_round(A, i) == keccak_iota(keccak_chi(keccak_rho_pi(keccak_theta(A))), i)

\* rounds lo..hi-1, lo < hi
RECURSIVE keccak_f(_, _, _)
keccak_f(A, lo, hi) ==
  IF hi = lo + 1 THEN keccak_round(A, lo)
  ELSE Only({ keccak_f(n[1], n[2], n[3])
              : n \in { << keccak_f(A, lo, (lo + hi) \div 2), (lo + hi) \div 2, hi >> } })

\* the rate of Keccak-384 in bytes: (1600 - 2 * 384) / 8
KeccakRate == 104

\* Keccak padding: 0x01, zeros, 0x80, up to a multiple of the rate
keccak_pad(bytes) ==
  Only({ IF Len(m) % KeccakRate = KeccakRate - 1
         THEN m \o <<129>>
         ELSE m \o <<1>>
                \o SubSeq([i \in 1..KeccakRate |-> 0], 1, KeccakRate - 2 - (Len(m) % KeccakRate))
                \o <<128>>
         : m \in { bytes } })

\* lane j (from 1) of block b (from 0) of the padded message p: 8 little-endian bytes
keccak_lane(p, b, j) ==
  << p[KeccakRate * b + 8 * (j - 1) + 2] * 256 + p[KeccakRate * b + 8 * (j - 1) + 1],
     p[KeccakRate * b + 8 * (j - 1) + 4] * 256 + p[KeccakRate * b + 8 * (j - 1) + 3],
     p[KeccakRate * b + 8 * (j - 1) + 6] * 256 + p[KeccakRate * b + 8 * (j - 1) + 5],
     p[KeccakRate * b + 8 * (j - 1) + 8] * 256 + p[KeccakRate * b + 8 * (j - 1) + 7] >>

\* block b of the padded message p xor-ed into the first 13 lanes
keccak_xor_block(A, p, b) ==
  SubSeq([n \in 1..25 |-> IF n <= 13 THEN Xor64(A[n], keccak_lane(p, b, n)) ELSE A[n]], 1, 25)

\* blocks b.. of the padded message p
RECURSIVE keccak_absorb(_, _, _)
keccak_absorb(A, p, b) ==
  IF KeccakRate * b >= Len(p) THEN A
  ELSE Only({ keccak_absorb(n[1], p, n[2])
              : n \in { << keccak_f(keccak_xor_block(A, p, b), 1, 25), b + 1 >> } })

\* the 8 little-endian bytes of a u64 in hex
LaneHexLE(a) ==
  ByteHex(a[1] % 256) \o ByteHex(a[1] \div 256) \o ByteHex(a[2] % 256) \o ByteHex(a[2] \div 256)
  \o ByteHex(a[3] % 256) \o ByteHex(a[3] \div 256) \o ByteHex(a[4] % 256) \o ByteHex(a[4] \div 256)

\* Keccak384::new(), update(bytes), finalize(), format!("{:x}")
keccak384_hex(bytes) ==
  Only({ LaneHexLE(A[1]) \o LaneHexLE(A[2]) \o LaneHexLE(A[3])
         \o LaneHexLE(A[4]) \o LaneHexLE(A[5]) \o LaneHexLE(A[6])
         : A \in { keccak_absorb(SubSeq([n \in 1..25 |-> <<0, 0, 0, 0>>], 1, 25),
                                 keccak_pad(bytes), 0) } })

\* ------------------------------------------------------------ normalizer

\* validate_machine_code with "@" left out of the accepted characters
validate_machine_code_no_at(mc) ==
  IF Len(mc) = 0 \/ Len(mc) < 8
  THEN FALSE
  ELSE LET trimmed == trim(mc)
       IN \A i \in 1..Len(trimmed) :
            \/ is_ascii_alphanumeric(trimmed[i])
            \/ trimmed[i] = "-"
            \/ trimmed[i] = "_"

validate_machine_code(mc) ==
  IF Len(mc) = 0 \/ Len(mc) < 8
  THEN FALSE
  ELSE LET trimmed == trim(mc)
       IN \A i \in 1..Len(trimmed) :
            \/ is_ascii_alphanumeric(trimmed[i])
            \/ trimmed[i] = "-"
            \/ trimmed[i] = "_"
            \/ trimmed[i] = "@"

\* clean_machine_code with the last replace (of '\t') forgotten
clean_machine_code_no_tab(mc) ==
  replace(replace(replace(trim(mc), " "), "\n"), "\r")

clean_machine_code(mc) ==
  replace(replace(replace(replace(trim(mc), " "), "\n"), "\r"), "\t")

\* ------------------------------------------------------------ classifier

\* detect_version with the length > 20 rule tried before the dash rule
detect_version_reordered(mc) ==
  IF Len(mc) < 15
  THEN [version |-> "< 3.9.6", is_legacy |-> TRUE]
  ELSE IF Len(mc) > 20
  THEN [version |-> ">= 3.9.6", is_legacy |-> FALSE]
  ELSE IF contains(mc, "-") /\ Len(mc) > 25
  THEN [version |-> "4.6+", is_legacy |-> FALSE]
  ELSE [version |-> "4.5", is_legacy |-> FALSE]

detect_version(mc) ==
  IF Len(mc) < 15
  THEN [version |-> "< 3.9.6", is_legacy |-> TRUE]
  ELSE IF contains(mc, "-") /\ Len(mc) > 25
  THEN [version |-> "4.6+", is_legacy |-> FALSE]
  ELSE IF Len(mc) > 20
  THEN [version |-> ">= 3.9.6", is_legacy |-> FALSE]
  ELSE [version |-> "4.5", is_legacy |-> FALSE]

\* ------------------------------------------------------------ generator

\* Result<T>: Ok(v), or no value (an Err passed up by `?`, or a panic)
Ok(v) == [ok |-> TRUE, val |-> v]
Panicked == [ok |-> FALSE, val |-> "panic"]

calc_md5(data) == Ok(md5_hex(as_bytes(data)))

calc_keccak384(data) == Ok(keccak384_hex(as_bytes(data)))

\* one call of calc_md5 or calc_keccak384: what was hashed, what came back
HashCall(family, data) ==
  Only({ [family |-> family, data |-> d,
          res |-> IF family = "md5" THEN calc_md5(d) ELSE calc_keccak384(d)]
         : d \in { data } })

\* &hash[lo..hi] panics unless hi <= hash.len()
in_bounds(hash, lo, hi) == lo <= hi /\ hi <= Len(hash)

\* key_of without the to_uppercase()
key_of_no_uppercase(hash, lo, hi) == SubSeq(hash, lo + 1, hi)

\* hash[lo..hi].to_uppercase()
key_of(hash, lo, hi) == to_uppercase(SubSeq(hash, lo + 1, hi))

\* the common body of the four generate_* functions: the advanced hash with `?`,
\* its slice, the professional hash with `?`, its slice, then Ok(ActivationResult)
activation_result(adv, alo, ahi, pro, plo, phi, version_type, version_name) ==
  Only({ [ret |->
            IF ~c[1].res.ok THEN c[1].res
            ELSE IF ~in_bounds(c[1].res.val, alo, ahi) THEN Panicked
            ELSE IF ~c[2].res.ok THEN c[2].res
            ELSE IF ~in_bounds(c[2].res.val, plo, phi) THEN Panicked
            ELSE Ok([version_type |-> version_type,
                     advanced_code |-> key_of(c[1].res.val, alo, ahi),
                     professional_code |-> key_of(c[2].res.val, plo, phi),
                     version_name |-> version_name]),
          hashed |-> c]
         : c \in { << adv, pro >> } })

\* the format!() calls with the literal of generate_v45's advanced key the
\* last six characters of the one of generate_v46
hash_input_shared_ending(version_type, tier, mc) ==
  CASE version_type = "Legacy" /\ tier = "advanced" ->
         << "6", "1", "3", "0", "5" >> \o mc \o << "8", "5", "5", "2" >>
    [] version_type = "Legacy" /\ tier = "professional" ->
         << "2", "3", "5", "6" >> \o mc \o << "1", "3", "5", "9", "3" >>
    [] version_type = "V396Plus" /\ tier = "advanced" ->
         mc \o << "h", "S", "f", "(", "7", "8", "c", "v", "V", "l", "S", "5", "E" >>
    [] version_type = "V396Plus" /\ tier = "professional" ->
         mc \o << "F", "F", "3", "G", "o", "(", "*", "X", "v", "b", "b", "5", "s", "2" >>
    [] version_type = "V45" /\ tier = "advanced" ->
         mc \o << "g", "Y", "S", "X", ",", "y" >>
    [] version_type = "V45" /\ tier = "professional" ->
         mc \o << "b", "(", "x", "x", "k", "H", "n", "%", "z", ")", ";", "x" >>
    [] version_type = "V46" /\ tier = "advanced" ->
         mc \o << "c", "s", "S", "f", "5", "*", "x", "l", "k", "g", "Y", "S", "X", ",", "y" >>
    [] version_type = "V46" /\ tier = "professional" ->
         mc \o << "S", "c", "f", "g", "*", "Z", "k", "v", "J", "Z", "c", ",", "s", ",", "Y" >>

\* the format!() calls of generate_legacy, generate_v396_plus, generate_v45
\* and generate_v46: the string that is hashed for a variant and a tier
hash_input(version_type, tier, mc) ==
  CASE version_type = "Legacy" /\ tier = "advanced" ->
         << "6", "1", "3", "0", "5" >> \o mc \o << "8", "5", "5", "2" >>
    [] version_type = "Legacy" /\ tier = "professional" ->
         << "2", "3", "5", "6" >> \o mc \o << "1", "3", "5", "9", "3" >>
    [] version_type = "V396Plus" /\ tier = "advanced" ->
         mc \o << "h", "S", "f", "(", "7", "8", "c", "v", "V", "l", "S", "5", "E" >>
    [] version_type = "V396Plus" /\ tier = "professional" ->
         mc \o << "F", "F", "3", "G", "o", "(", "*", "X", "v", "b", "b", "5", "s", "2" >>
    [] version_type = "V45" /\ tier = "advanced" ->
         mc \o << "w", "c", "e", "g", "S", "3", "g", "z", "A", "$" >>
    [] version_type = "V45" /\ tier = "professional" ->
         mc \o << "b", "(", "x", "x", "k", "H", "n", "%", "z", ")", ";", "x" >>
    [] version_type = "V46" /\ tier = "advanced" ->
         mc \o << "c", "s", "S", "f", "5", "*", "x", "l", "k", "g", "Y", "S", "X", ",", "y" >>
    [] version_type = "V46" /\ tier = "professional" ->
         mc \o << "S", "c", "f", "g", "*", "Z", "k", "v", "J", "Z", "c", ",", "s", ",", "Y" >>

\* generate_legacy with the salts of the two tiers exchanged
generate_legacy_tiers_swapped(mc) ==
  activation_result(
    HashCall("md5", << "2", "3", "5", "6" >> \o mc \o << "1", "3", "5", "9", "3" >>), 8, 24,
    HashCall("md5", << "6", "1", "3", "0", "5" >> \o mc \o << "8", "5", "5", "2" >>), 8, 24,
    "Legacy",
    << "F", "i", "n", "a", "l", "S", "h", "e", "l", "l", " ", "<", " ", "3", ".", "9", ".",
       "6" >>)

generate_legacy(mc) ==
  activation_result(
    HashCall("md5", hash_input("Legacy", "advanced", mc)), 8, 24,
    HashCall("md5", hash_input("Legacy", "professional", mc)), 8, 24,
    "Legacy",
    << "F", "i", "n", "a", "l", "S", "h", "e", "l", "l", " ", "<", " ", "3", ".", "9", ".",
       "6" >>)

generate_v396_plus(mc) ==
  activation_result(
    HashCall("keccak384", hash_input("V396Plus", "advanced", mc)), 12, 28,
    HashCall("keccak384", hash_input("V396Plus", "professional", mc)), 12, 28,
    "V396Plus",
    << "F", "i", "n", "a", "l", "S", "h", "e", "l", "l", " ", "U+2265", " ", "3", ".", "9",
       ".", "6" >>)

\* generate_v45 slicing [8..24], the range of generate_legacy
generate_v45_legacy_range(mc) ==
  activation_result(
    HashCall("keccak384", mc \o << "w", "c", "e", "g", "S", "3", "g", "z", "A", "$" >>), 8, 24,
    HashCall("keccak384", mc \o << "b", "(", "x", "x", "k", "H", "n", "%", "z", ")", ";", "x" >>), 8, 24,
    "V45",
    << "F", "i", "n", "a", "l", "S", "h", "e", "l", "l", " ", "4", ".", "5" >>)

generate_v45(mc) ==
  activation_result(
    HashCall("keccak384", hash_input("V45", "advanced", mc)), 12, 28,
    HashCall("keccak384", hash_input("V45", "professional", mc)), 12, 28,
    "V45",
    << "F", "i", "n", "a", "l", "S", "h", "e", "l", "l", " ", "4", ".", "5" >>)

generate_v46(mc) ==
  activation_result(
    HashCall("keccak384", hash_input("V46", "advanced", mc)), 12, 28,
    HashCall("keccak384", hash_input("V46", "professional", mc)), 12, 28,
    "V46",
    << "F", "i", "n", "a", "l", "S", "h", "e", "l", "l", " ", "4", ".", "6" >>)

\* generate_all pushing generate_v46 before generate_v45
generate_all_push_v46_first(k, mc) ==
  CASE k = 1 -> generate_legacy(mc)
    [] k = 2 -> generate_v396_plus(mc)
    [] k = 3 -> generate_v46(mc)
    [] k = 4 -> generate_v45(mc)

\* the k-th push of generate_all: results.push(Self::generate_...(machine_code)?)
generate_all_push(k, mc) ==
  CASE k = 1 -> generate_legacy(mc)
    [] k = 2 -> generate_v396_plus(mc)
    [] k = 3 -> generate_v45(mc)
    [] k = 4 -> generate_v46(mc)

\* the match of generate: the generate_* call of the arm of a label
generate_match(label, mc) ==
  CASE label = "< 3.9.6" -> generate_legacy(mc)
    [] label = ">= 3.9.6" -> generate_v396_plus(mc)
    [] label = "4.5" -> generate_v45(mc)
    [] label = "4.6+" -> generate_v46(mc)
    [] OTHER -> generate_v396_plus(mc)

\* generate returning result.advanced_code
generate_advanced(mc) ==
  Only({ [ret |-> IF r.ret.ok
                  THEN Ok(<< r.ret.val.advanced_code, detect_version(mc) >>)
                  ELSE r.ret,
          hashed |-> r.hashed]
         : r \in { generate_match(detect_version(mc).version, mc) } })

generate(mc) ==
  Only({ [ret |-> IF r.ret.ok
                  THEN Ok(<< r.ret.val.professional_code, detect_version(mc) >>)
                  ELSE r.ret,
          hashed |-> r.hashed]
         : r \in { generate_match(detect_version(mc).version, mc) } })

\* ------------------------------------------------------------ generate_all, format_all_codes

\* generate_all from its k-th push on, with the results pushed so far:
\* `?` returns the Err of a callee, Ok(results) ends the function
RECURSIVE generate_all_from(_, _, _)
generate_all_from(pushed, k, mc) ==
  IF k > 4
  THEN Ok(pushed)
  ELSE Only({ IF r.ret.ok
              THEN generate_all_from(Append(pushed, r.ret.val), k + 1, mc)
              ELSE r.ret
              : r \in { generate_all_push(k, mc) } })

\* the results of the latest generate_all call of the history, if any
LastGenerateAllResults ==
  LET past == SelectSeq(calls, LAMBDA c : c.op = "generate_all" /\ c.ret.ok)
  IN IF past = << >> THEN << >> ELSE past[Len(past)].ret.val

\* generate_all pushing onto a vector that outlives the call
\* (a static one, never emptied)
generate_all_static_results(mc) ==
  generate_all_from(LastGenerateAllResults, 1, mc)

\* let mut results = Vec::new(); the four pushes; Ok(results)
generate_all(mc) ==
  generate_all_from(<< >>, 1, mc)

\* a character repeated n times
Repeat(c, n) == SubSeq([i \in 1..n |-> c], 1, n)

DecimalDigits == << "0", "1", "2", "3", "4", "5", "6", "7", "8", "9" >>

\* the decimal digits of n, zero-padded to w digits (%02d, %04d of strftime)
RECURSIVE ZeroPadded(_, _)
ZeroPadded(n, w) ==
  IF w = 0 THEN << >>
  ELSE ZeroPadded(n \div 10, w - 1) \o << DecimalDigits[(n % 10) + 1] >>

\* the proleptic Gregorian date of a day number counted from 1970-01-01
civil_from_days(days) ==
  LET z == days + 719468
      era == z \div 146097
      doe == z - era * 146097
      yoe == (doe - (doe \div 1460) + (doe \div 36524) - (doe \div 146096)) \div 365
      doy == doe - (365 * yoe + (yoe \div 4) - (yoe \div 100))
      mp == (5 * doy + 2) \div 153
      d == doy - ((153 * mp + 2) \div 5) + 1
      m == IF mp < 10 THEN mp + 3 ELSE mp - 9
  IN [year |-> yoe + era * 400 + (IF m <= 2 THEN 1 ELSE 0), month |-> m, day |-> d]

\* DateTime<Utc>::format("%Y-%m-%d %H:%M:%S UTC") of an instant given in
\* seconds since 1970-01-01 00:00:00 UTC
format_utc(t) ==
  LET date == civil_from_days(t \div 86400)
      secs == t % 86400
  IN ZeroPadded(date.year, 4) \o << "-" >> \o ZeroPadded(date.month, 2) \o << "-" >>
       \o ZeroPadded(date.day, 2) \o << " " >>
       \o ZeroPadded(secs \div 3600, 2) \o << ":" >>
       \o ZeroPadded((secs % 3600) \div 60, 2) \o << ":" >>
       \o ZeroPadded(secs % 60, 2) \o << " ", "U", "T", "C" >>

\* the literals of format_all_codes; a character outside ASCII, and the
\* backtick, is written as its code point
ReportRule == Repeat("U+2550", 39)

ReportTitle ==
  << "U+1F389", " ", " ", " ", " ", " ", " ", " ", " ", "F", "i", "n", "a", "l", "S", "h",
     "e", "l", "l", " ", "U+6FC0", "U+6D3B", "U+7801", "U+751F", "U+6210", "U+5668", " ",
     " ", " ", " ", " ", " ", " ", " ", "U+1F389", "\n" >>

ReportCodeLabel ==
  << "U+1F511", " ", "U+8F93", "U+5165", "U+673A", "U+5668", "U+7801", ":", " " >>

ReportTimeLabel ==
  << "U+1F4C5", " ", "U+751F", "U+6210", "U+65F6", "U+95F4", ":", " " >>

ReportResultsTitle ==
  << "U+1F3AF", " ", "U+751F", "U+6210", "U+7ED3", "U+679C", ":", "\n", "\n" >>

ReportAdvancedLabel ==
  << "U+2523", "U+2501", " ", "U+1F7E1", " ", "U+9AD8", "U+7EA7", "U+7248", ":", " " >>

ReportProfessionalLabel ==
  << "U+2517", "U+2501", " ", "U+1F7E2", " ", "U+4E13", "U+4E1A", "U+7248", ":", " " >>

ReportHint ==
  << "U+1F4A1", " ", "U+63D0", "U+793A", ":", " ", "U+6B22", "U+8FCE", "U+4F7F", "U+7528",
     " ", "U+1F7E2", " ", "U+6FC0", "U+6D3B", "U+7801", "U+751F", "U+6210", "U+5DE5",
     "U+5177", "\n" >>

ReportNotice ==
  << "U+1F6E1", "U+FE0F", " ", "U+8BF7", "U+5408", "U+7406", "U+4F7F", "U+7528", " ",
     "U+6EE5", "U+7528", "U+5FC5", "U+7A76", "\n" >>

\* a report whose time line is a fixed text, no reading of the clock
format_time_line_fixed(t) ==
  ReportTimeLabel \o format_utc(0) \o << "\n", "\n" >>

\* format!("U+1F4C5 ...: {}\n\n", chrono::Utc::now().format(..)), t the clock reading
format_time_line(t) ==
  ReportTimeLabel \o format_utc(t) \o << "\n", "\n" >>

\* let version_icon = match index { .. }
version_icon(index) ==
  CASE index = 0 -> "U+1F539"
    [] index = 1 -> "U+1F538"
    [] index = 2 -> "U+1F537"
    [] index = 3 -> "U+1F536"
    [] OTHER -> "U+1F4CC"

\* a section showing the Professional key in both of its lines
format_section_professional_twice(index, result) ==
  << version_icon(index), " " >> \o result.version_name \o << "\n" >>
    \o ReportAdvancedLabel \o << "U+0060" >> \o result.professional_code \o << "U+0060", "\n" >>
    \o ReportProfessionalLabel \o << "U+0060" >> \o result.professional_code
    \o << "U+0060", "\n", "\n" >>

\* the format! of the loop body: icon and version_name, the Advanced line,
\* the Professional line, an empty line
format_section(index, result) ==
  << version_icon(index), " " >> \o result.version_name \o << "\n" >>
    \o ReportAdvancedLabel \o << "U+0060" >> \o result.advanced_code \o << "U+0060", "\n" >>
    \o ReportProfessionalLabel \o << "U+0060" >> \o result.professional_code
    \o << "U+0060", "\n", "\n" >>

\* for (index, result) in results.iter().enumerate() { output.push_str(..) }
RECURSIVE format_sections(_, _)
format_sections(results_, index) ==
  IF index >= Len(results_)
  THEN << >>
  ELSE format_section(index, results_[index + 1]) \o format_sections(results_, index + 1)

\* format_all_codes(machine_code), with what its two calls returned:
\* generated is the value of Self::generate_all(machine_code), t the value
\* of chrono::Utc::now()
format_all_codes(generated, mc, t) ==
  IF ~generated.ok
  THEN generated
  ELSE Ok(ReportRule \o << "\n" >>
          \o ReportTitle
          \o ReportRule \o << "\n", "\n" >>
          \o ReportCodeLabel \o << "U+0060" >> \o mc \o << "U+0060", "\n" >>
          \o format_time_line(t)
          \o ReportResultsTitle
          \o format_sections(generated.val, 0)
          \o ReportRule \o << "\n" >>
          \o ReportHint
          \o ReportNotice
          \o ReportRule \o << "\n" >>)

\* ------------------------------------------------------------ inputs

\* characters placed among the filler "A"
SpecialChars == { "z", "7", "@", "-", "_", ".", "#", " ", "\n", "\r", "\t", "\f" }

\* n characters, all "A" except c1 at position p1 and c2 at position p2
\* (a position outside 1..n places nothing)
Filled(n, p1, c1, p2, c2) ==
  SubSeq([i \in 1..n |-> IF i = p1 THEN c1 ELSE IF i = p2 THEN c2 ELSE "A"], 1, n)

\* the inputs of the tests of finalshell.rs
TestInputs ==
  { << >>,
    << "1", "2", "3" >>,
    << "A", "B", "C", "@", "1", "2", "3" >>,
    << "A", "B", "C", "1", "2", "3" >>,
    << "A", "B", "C", "1", "2", "3", "D", "E", "F", "4", "5", "6" >>,
    << "a", "b", "c", "-", "1", "2", "3", "-", "d", "e", "f" >>,
    << " ", "A", "B", "C", " ", "1", "2", "3", "\n", "D", "E", "F", "\t", "4", "5", "6", " " >>,
    << "A", "B", "C", "1", "2", "3", "D", "E", "F", "4", "5", "6",
       "G", "H", "I", "7", "8", "9", "J", "K", "L", "0", "1", "2" >> }

RawInputs ==
  TestInputs \cup
  { Filled(n, p[1], c[1], p[2], c[2]) :
      n \in 0..MaxRawLen,
      p \in { q \in (0..MaxRawLen) \X (0..MaxRawLen) : q[1] = 0 \/ q[1] < q[2] },
      c \in SpecialChars \X SpecialChars }

CodeInputs ==
  TestInputs \cup
  { Filled(n, p, "-", 0, "-") : n \in 0..MaxCodeLen, p \in 0..MaxCodeLen }

\* ------------------------------------------------------------ callers at rest

\* a reading of chrono::Utc::now(): 2024-12-31 23:59:59 UTC, in seconds
\* since 1970-01-01 00:00:00 UTC
ClockStart == 1735689599

\* no call of a caller made yet, the clock at its first reading
CallsIdle == now = ClockStart /\ calls = << >>

Threads == 1..MaxThreads

\* a thread outside every call of the core
IdleThread == [op |-> "none", arg |-> << >>, pc |-> "idle", k |-> 0, ret |-> None]

\* no thread is in a call, no vector holds anything
ThreadsIdle ==
  /\ thread = [t \in Threads |-> IdleThread]
  /\ vec = [t \in Threads |-> << >>]

\* ------------------------------------------------------------ the bot at rest

\* Config: ADMIN_IDS=1, MAX_USER_REQUESTS=1
admin_ids == { 1 }
max_user_requests == 1

\* Config::is_admin answering no for every user
is_admin_nobody(user_id) == FALSE

\* Config::is_admin answering yes for every user
is_admin_anyone(user_id) == TRUE

\* Config::is_admin
is_admin(user_id) == user_id \in admin_ids

\* the Telegram users writing to the bot: the administrator and another user
UserIds == { 1, 2 }

\* a group chat the bot and both users are in
GroupChat == 3

\* the private chat of user 2 (its ChatId is the user id)
PrivateChat == 2

\* the chats updates come from: the private chat and the group
ChatIds == { PrivateChat, GroupChat }

\* who writes in a chat
Senders(chat) == IF chat = GroupChat THEN UserIds ELSE { chat }

\* no row of table users for a user_id
NoRow == [exists |-> FALSE, is_banned |-> FALSE, request_count |-> 0]

\* the row INSERT INTO users makes: is_banned and request_count at their defaults
NewRow == [exists |-> TRUE, is_banned |-> FALSE, request_count |-> 0]

\* a log file older than 7 days and a younger one
LogFiles == { [name |-> "bot_old.log", old |-> TRUE], [name |-> "bot.log", old |-> FALSE] }

\* no update in a chat
IdleHandler ==
  [user |-> 0, msg |-> [cmd |-> "none", text |-> << >>], endpoint |-> "none", pc |-> "idle",
   db_user |-> NoRow, sent |-> << >>, wrote |-> << >>]

\* the bot after run(): the database as migrate leaves it (empty, or with
\* the rows a previous run left: both users registered, the user who is no
\* admin banned or not), no update received
BotIdle ==
  /\ users \in { [u \in UserIds |-> NoRow], [u \in UserIds |-> NewRow],
                 [u \in UserIds |-> IF is_admin(u) THEN NewRow ELSE [NewRow EXCEPT !.is_banned = TRUE]] }
  /\ activation_logs = << >>
  /\ log_files = LogFiles
  /\ dialogue = [c \in ChatIds |-> "Start"]
  /\ handler = [c \in ChatIds |-> IdleHandler]
  /\ received = 0
  /\ served = [u \in UserIds |-> 0]
  /\ prompted = [c \in ChatIds |-> << >>]

\* the state of the callers while a single call of the core is studied
CallersIdle ==
  /\ CallsIdle
  /\ ThreadsIdle
  /\ BotIdle
  /\ users = [u \in UserIds |-> NoRow]

\* ------------------------------------------------------------ normalizer calls

Validate ==
  /\ valid = None
  /\ valid' = Some(validate_machine_code(machine_code))
  /\ UNCHANGED << machine_code, cleaned, recleaned, version, derive_vars >>
  /\ UNCHANGED caller_vars

Clean ==
  /\ cleaned = None
  /\ cleaned' = Some(clean_machine_code(machine_code))
  /\ UNCHANGED << machine_code, valid, recleaned, version, derive_vars >>
  /\ UNCHANGED caller_vars

Reclean ==
  /\ cleaned # None
  /\ recleaned = None
  /\ recleaned' = Some(clean_machine_code(cleaned[1]))
  /\ UNCHANGED << machine_code, valid, cleaned, version, derive_vars >>
  /\ UNCHANGED caller_vars

InitNormalizer ==
  /\ machine_code \in RawInputs
  /\ valid = None
  /\ cleaned = None
  /\ recleaned = None
  /\ version = None
  /\ results = << >>
  /\ all_ret = None
  /\ gen_ret = None
  /\ hashed = << >>
  /\ gen_hashed = << >>
  /\ CallersIdle

NextNormalizer == Validate \/ Clean \/ Reclean

SpecNormalizer == InitNormalizer /\ [][NextNormalizer]_vars

\* ------------------------------------------------------------ classifier calls

DetectVersion ==
  /\ version = None
  /\ version' = Some(detect_version(machine_code))
  /\ UNCHANGED << machine_code, normalizer_vars, derive_vars >>
  /\ UNCHANGED caller_vars

InitClassifier ==
  /\ machine_code \in CodeInputs
  /\ valid = None
  /\ cleaned = None
  /\ recleaned = None
  /\ version = None
  /\ results = << >>
  /\ all_ret = None
  /\ gen_ret = None
  /\ hashed = << >>
  /\ gen_hashed = << >>
  /\ CallersIdle

NextClassifier == DetectVersion

SpecClassifier == InitClassifier /\ [][NextClassifier]_vars

\* ------------------------------------------------------------ generator calls

\* codes of the lengths at which detect_version changes its answer
BoundaryLens == { 14, 15, 20, 21, 25, 26 }

\* the example codes of the format message of handle_machine_code
BotExamples ==
  { << "a", "b", "c", "1", "2", "3", "@", "d", "e", "f", "4", "5", "6" >>,
    << "u", "s", "e", "r", "_", "0", "0", "1", "@", "m", "a", "c", "h", "i", "n", "e" >>,
    << "t", "e", "s", "t", "-", "2", "0", "2", "4", "@", "s", "e", "r", "v", "e", "r" >> }

DeriveInputs ==
  TestInputs \cup BotExamples \cup
  { Filled(n, p, "-", 0, "-") : n \in BoundaryLens, p \in { 0, 5 } }

\* one push of generate_all; an Err or a panic of the callee ends the call
GenerateAllPush ==
  /\ all_ret = None
  /\ Len(results) < 4
  /\ \E r \in { generate_all_push(Len(results) + 1, machine_code) } :
        /\ hashed' = hashed \o r.hashed
        /\ IF r.ret.ok
           THEN results' = Append(results, r.ret.val) /\ all_ret' = all_ret
           ELSE results' = results /\ all_ret' = Some(r.ret)
  /\ UNCHANGED << machine_code, normalizer_vars, version, gen_ret, gen_hashed >>
  /\ UNCHANGED caller_vars

\* Ok(results)
GenerateAllReturn ==
  /\ all_ret = None
  /\ Len(results) = 4
  /\ all_ret' = Some(Ok(results))
  /\ UNCHANGED << machine_code, normalizer_vars, version, results, gen_ret, hashed, gen_hashed >>
  /\ UNCHANGED caller_vars

\* generate on the same code, called after generate_all has returned
\* (the order of the caller, bot.rs handle_machine_code)
Generate ==
  /\ all_ret # None
  /\ gen_ret = None
  /\ \E g \in { generate(machine_code) } :
        /\ gen_ret' = Some(g.ret)
        /\ gen_hashed' = g.hashed
  /\ UNCHANGED << machine_code, normalizer_vars, version, results, all_ret, hashed >>
  /\ UNCHANGED caller_vars

InitDerive ==
  /\ machine_code \in DeriveInputs
  /\ valid = None
  /\ cleaned = None
  /\ recleaned = None
  /\ version = None
  /\ results = << >>
  /\ all_ret = None
  /\ gen_ret = None
  /\ hashed = << >>
  /\ gen_hashed = << >>
  /\ CallersIdle

NextDerive == GenerateAllPush \/ GenerateAllReturn \/ Generate

SpecDerive == InitDerive /\ [][NextDerive]_vars

\* ------------------------------------------------------------ a caller's calls, one after another

\* the codes of the calls: the code of the tests of finalshell.rs and an
\* example of the format message of handle_machine_code
CallCodes ==
  << << "A", "B", "C", "1", "2", "3", "D", "E", "F", "4", "5", "6" >>,
     << "t", "e", "s", "t", "-", "2", "0", "2", "4", "@", "s", "e", "r", "v", "e", "r" >> >>

\* generate_all(machine_code) for each code of CallCodes
generate_all_values ==
  << generate_all(CallCodes[1]), generate_all(CallCodes[2]) >>

\* generate(machine_code) for each code of CallCodes
generate_values ==
  << generate(CallCodes[1]).ret, generate(CallCodes[2]).ret >>

\* the core has no state of a single call left behind
CoreIdle ==
  /\ machine_code = << >>
  /\ valid = None
  /\ cleaned = None
  /\ recleaned = None
  /\ version = None
  /\ results = << >>
  /\ all_ret = None
  /\ gen_ret = None
  /\ hashed = << >>
  /\ gen_hashed = << >>

\* the clock advances by a second
Tick ==
  /\ now < ClockStart + MaxTicks
  /\ now' = now + 1
  /\ UNCHANGED << calls, core_vars, thread_vars, bot_vars >>

\* a call made and returned: its operation, argument, the clock reading
\* during the call and the value returned
Returned(op, mc, ret) ==
  /\ Len(calls) < MaxCalls
  /\ calls' = Append(calls, [op |-> op, arg |-> mc, at |-> now, ret |-> ret])
  /\ UNCHANGED << now, core_vars, thread_vars, bot_vars >>

CallGenerateAll ==
  \E i \in 1..Len(CallCodes) :
    Returned("generate_all", CallCodes[i], generate_all_values[i])

CallGenerate ==
  \E i \in 1..Len(CallCodes) :
    Returned("generate", CallCodes[i], generate_values[i])

CallFormatAllCodes ==
  \E i \in 1..Len(CallCodes) :
    Returned("format_all_codes", CallCodes[i],
             format_all_codes(generate_all_values[i], CallCodes[i], now))

InitCalls == CoreIdle /\ CallersIdle

NextCalls == Tick \/ CallGenerateAll \/ CallGenerate \/ CallFormatAllCodes

SpecCalls == InitCalls /\ [][NextCalls]_vars

\* ------------------------------------------------------------ utils: calculate_uptime

\* u64::to_string: the decimal digits of n
RECURSIVE to_string(_)
to_string(n) ==
  IF n < 10 THEN << DecimalDigits[n + 1] >>
  ELSE to_string(n \div 10) \o << DecimalDigits[(n % 10) + 1] >>

\* {:02}: the decimal digits of n, with a leading zero if there is only one
format_02(n) == IF n < 10 THEN << "0" >> \o to_string(n) ELSE to_string(n)

\* calculate_uptime with the hours not reduced to the hours of a day
calculate_uptime_hours_of_all(start_time, current_time) ==
  LET uptime_seconds == current_time - start_time
      days == uptime_seconds \div 86400
      hours == uptime_seconds \div 3600
      minutes == (uptime_seconds % 3600) \div 60
      seconds == uptime_seconds % 60
      clock == format_02(hours) \o << ":" >> \o format_02(minutes) \o << ":" >>
                 \o format_02(seconds)
  IN IF days > 0
     THEN to_string(days) \o << " ", "d", "a", "y", "s", ",", " " >> \o clock
     ELSE clock

\* calculate_uptime; current_time is the reading of SystemTime::now() in
\* seconds since UNIX_EPOCH
calculate_uptime(start_time, current_time) ==
  LET uptime_seconds == current_time - start_time
      days == uptime_seconds \div 86400
      hours == (uptime_seconds % 86400) \div 3600
      minutes == (uptime_seconds % 3600) \div 60
      seconds == uptime_seconds % 60
      clock == format_02(hours) \o << ":" >> \o format_02(minutes) \o << ":" >>
                 \o format_02(seconds)
  IN IF days > 0
     THEN to_string(days) \o << " ", "d", "a", "y", "s", ",", " " >> \o clock
     ELSE clock

\* the seconds a process has been running when its uptime is asked for:
\* none, the 3661 of the test, a second less than a day, a day, and a
\* hundred days and 3661 seconds
UptimeElapsed == { 0, 3661, 86399, 86400, 8643661 }

\* a call of calculate_uptime for a process started e seconds ago
CallCalculateUptime ==
  \E e \in UptimeElapsed :
    Returned("calculate_uptime", now - e, calculate_uptime(now - e, now))

InitUptime == CoreIdle /\ CallersIdle

NextUptime == Tick \/ CallCalculateUptime

SpecUptime == InitUptime /\ [][NextUptime]_vars

\* ------------------------------------------------------------ the strings that are hashed

\* the (variant, tier) pairs, in the order generate_all hashes for them
HashForms ==
  << << "Legacy", "advanced" >>, << "Legacy", "professional" >>,
     << "V396Plus", "advanced" >>, << "V396Plus", "professional" >>,
     << "V45", "advanced" >>, << "V45", "professional" >>,
     << "V46", "advanced" >>, << "V46", "professional" >> >>

FormIndex(version_type, tier) ==
  CHOOSE k \in DOMAIN HashForms : HashForms[k] = << version_type, tier >>

\* the machine codes the strings are compared for: a code; the code
\* followed by the first characters of a literal that is appended, the
\* codes with which a shorter literal would complete a longer one; and the
\* code with a part of a Legacy wrap before it or after it
InputCodes ==
  LET base == CallCodes[1]
      endings == { hash_input(HashForms[k][1], HashForms[k][2], << >>) : k \in 3..8 }
      wraps == { hash_input(HashForms[k][1], HashForms[k][2], << >>) : k \in 1..2 }
  IN UNION { { base \o SubSeq(e, 1, n) : n \in 0..(Len(e) - 1) } : e \in endings }
       \cup UNION { { SubSeq(w, 1, n) \o base : n \in 1..Len(w) } : w \in wraps }
       \cup UNION { { base \o SubSeq(w, n, Len(w)) : n \in 1..Len(w) } : w \in wraps }

\* the string hashed for a form and a code
CallHashInput(k, mc) ==
  Returned("hash_input", << HashForms[k][1], HashForms[k][2], mc >>,
           hash_input(HashForms[k][1], HashForms[k][2], mc))

\* the string of one form for one code
CallHashInputFirst ==
  /\ calls = << >>
  /\ \E k \in DOMAIN HashForms, mc \in InputCodes : CallHashInput(k, mc)

\* then the string of a later form, for the same code or another
CallHashInputSecond ==
  /\ Len(calls) = 1
  /\ \E k \in DOMAIN HashForms, mc \in InputCodes :
       /\ k > FormIndex(calls[1].arg[1], calls[1].arg[2])
       /\ CallHashInput(k, mc)

InitInputs == CoreIdle /\ CallersIdle

NextInputs == CallHashInputFirst \/ CallHashInputSecond

SpecInputs == InitInputs /\ [][NextInputs]_vars

\* ------------------------------------------------------------ threads calling the core at the same time

\* the raw strings handed to validate_machine_code and clean_machine_code
ThreadRawArgs ==
  { << " ", "A", "B", "C", " ", "1", "2", "3", "\n", "D", "E", "F", "\t", "4", "5", "6", " " >>,
    << "A", "B", "C", "@", "1", "2", "3", "4" >> }

\* the codes handed to detect_version, generate_all and generate
ThreadCodeArgs == { CallCodes[i] : i \in 1..Len(CallCodes) }

\* the position of a code in CallCodes
CodeIndex(mc) == CHOOSE i \in 1..Len(CallCodes) : CallCodes[i] = mc

\* generate_all: the value of Self::generate_..(machine_code) of its k-th push
generate_all_push_value(k, mc) ==
  IF generate_all_values[CodeIndex(mc)].ok
  THEN Ok(generate_all_values[CodeIndex(mc)].val[k])
  ELSE generate_all_push(k, mc).ret

\* one vector for all calls of generate_all (a static)
results_of_static(t) == 1

\* the vector of the generate_all call of thread t: let mut results =
\* Vec::new() makes one for each call
results_of(t) == t

\* thread t calls a function of the core
Invoke(t) ==
  /\ thread[t].pc = "idle"
  /\ \E op \in { "validate_machine_code", "clean_machine_code", "detect_version",
                  "generate_all", "generate" } :
       \E arg \in (IF op \in { "validate_machine_code", "clean_machine_code" }
                    THEN ThreadRawArgs ELSE ThreadCodeArgs) :
         thread' = [thread EXCEPT ![t] =
                      [op |-> op, arg |-> arg, pc |-> "called", k |-> 0, ret |-> None]]
  /\ UNCHANGED << vec, core_vars, call_vars, bot_vars >>

\* the body of a function without a local that outlives a statement
RunBody(t) ==
  /\ thread[t].pc = "called"
  /\ thread[t].op \in { "validate_machine_code", "clean_machine_code", "detect_version",
                         "generate" }
  /\ thread' = [thread EXCEPT ![t].pc = "returned",
                               ![t].ret = Some(
         CASE thread[t].op = "validate_machine_code" -> validate_machine_code(thread[t].arg)
           [] thread[t].op = "clean_machine_code" -> clean_machine_code(thread[t].arg)
           [] thread[t].op = "detect_version" -> detect_version(thread[t].arg)
           [] thread[t].op = "generate" -> generate_values[CodeIndex(thread[t].arg)])]
  /\ UNCHANGED << vec, core_vars, call_vars, bot_vars >>

\* generate_all: let mut results = Vec::new()
GenerateAllNew(t) ==
  /\ thread[t].pc = "called"
  /\ thread[t].op = "generate_all"
  /\ vec' = [vec EXCEPT ![results_of(t)] = << >>]
  /\ thread' = [thread EXCEPT ![t].pc = "pushing", ![t].k = 1]
  /\ UNCHANGED << core_vars, call_vars, bot_vars >>

\* generate_all: the k-th results.push(Self::generate_..(machine_code)?)
GenerateAllPushK(t) ==
  /\ thread[t].pc = "pushing"
  /\ thread[t].k <= 4
  /\ \E r \in { generate_all_push_value(thread[t].k, thread[t].arg) } :
       IF r.ok
       THEN /\ vec' = [vec EXCEPT ![results_of(t)] = Append(@, r.val)]
            /\ thread' = [thread EXCEPT ![t].k = @ + 1]
       ELSE /\ vec' = vec
            /\ thread' = [thread EXCEPT ![t].pc = "returned", ![t].ret = Some(r)]
  /\ UNCHANGED << core_vars, call_vars, bot_vars >>

\* generate_all: Ok(results)
GenerateAllOk(t) ==
  /\ thread[t].pc = "pushing"
  /\ thread[t].k > 4
  /\ thread' = [thread EXCEPT ![t].pc = "returned",
                               ![t].ret = Some(Ok(vec[results_of(t)]))]
  /\ UNCHANGED << vec, core_vars, call_vars, bot_vars >>

\* the caller of thread t has taken the value; the vector is dropped
Done(t) ==
  /\ thread[t].pc = "returned"
  /\ thread' = [thread EXCEPT ![t] = IdleThread]
  /\ UNCHANGED << vec, core_vars, call_vars, bot_vars >>

InitThreads == CoreIdle /\ CallersIdle

NextThreads ==
  \E t \in Threads :
    \/ Invoke(t)
    \/ RunBody(t)
    \/ GenerateAllNew(t)
    \/ GenerateAllPushK(t)
    \/ GenerateAllOk(t)
    \/ Done(t)

SpecThreads == InitThreads /\ [][NextThreads]_vars

\* ------------------------------------------------------------ the bot: updates and handlers

\* the positions 1..n, ascending
Positions(n) == SubSeq([k \in 1..n |-> k], 1, n)

\* the reply "confirm" of the broadcast prompt (U+786E U+8BA4)
Confirm == << "U+786E", "U+8BA4" >>

\* the texts users send that are no command: the code of the tests, an
\* example code with white space around it, a code with a space inside,
\* and the reply "confirm"
BotTexts ==
  { CallCodes[1],
    << " " >> \o CallCodes[2] \o << "\n" >>,
    << "A", "B", "C", "1", "2", "3", " ", "D", "E", "F", "4", "5", "6" >>,
    Confirm }

\* a message: its Command, if teloxide::filter_command parses one, with the
\* argument of the command; otherwise its text
Messages ==
  { [cmd |-> "none", text |-> t] : t \in BotTexts }
  \cup { [cmd |-> c, text |-> << >>] :
           c \in { "start", "help", "about", "stats", "users", "guard", "clear", "cleanup" } }
  \cup { [cmd |-> c, text |-> a] :
           c \in { "ban", "unban" }, a \in { << "1" >>, << "2" >>, << "x" >> } }
  \cup { [cmd |-> "say", text |-> a] : a \in { << "h", "i" >>, << " " >> } }

\* msg.text(): the command word of a command is kept as one element
text_of(msg) ==
  IF msg.cmd = "none" THEN msg.text ELSE << "/", msg.cmd >> \o msg.text

\* schema() with the commands dispatched in every dialogue state
endpoint_of_commands_always(state, msg) ==
  IF msg.cmd # "none" THEN msg.cmd
  ELSE IF state = "Start" THEN "handle_machine_code"
  ELSE "handle_broadcast"

\* schema(): the endpoint of a message. Commands are endpoints only under
\* case![State::Start]; in State::AdminBroadcast every message goes to
\* handle_broadcast
endpoint_of(state, msg) ==
  IF state = "Start"
  THEN (IF msg.cmd # "none" THEN msg.cmd ELSE "handle_machine_code")
  ELSE "handle_broadcast"

\* str::parse::<i64> of a string of decimal digits; None for anything else
RECURSIVE parse_digits(_, _)
parse_digits(str, acc) ==
  IF str = << >> THEN Some(acc)
  ELSE IF \E d \in 1..10 : DecimalDigits[d] = str[1]
  THEN parse_digits(Tail(str), 10 * acc + (CHOOSE d \in 1..10 : DecimalDigits[d] = str[1]) - 1)
  ELSE None

parse_i64(str) == IF str = << >> THEN None ELSE parse_digits(str, 0)

\* database::get_user_by_id: fetch_one is an Err when there is no row
get_user_by_id(user_id) ==
  IF users[user_id].exists THEN Ok(users[user_id]) ELSE [ok |-> FALSE, val |-> "RowNotFound"]

\* UPDATE users SET .. WHERE user_id = ?: no row, nothing updated
update_row(table, user_id, field, value) ==
  IF user_id \in DOMAIN table /\ table[user_id].exists
  THEN [table EXCEPT ![user_id][field] = value]
  ELSE table

\* database::update_user_request_count: request_count = request_count + 1
update_user_request_count(table, user_id) ==
  update_row(table, user_id, "request_count", table[user_id].request_count + 1)

\* database::ban_user
db_ban_user(table, user_id) == update_row(table, user_id, "is_banned", TRUE)

\* database::unban_user
db_unban_user(table, user_id) == update_row(table, user_id, "is_banned", FALSE)

\* database::get_all_users: the user ids of the rows, ascending (the order
\* of the rows, by created_at, is not modelled)
get_all_users ==
  SelectSeq(Positions(Cardinality(UserIds)), LAMBDA u : users[u].exists)

\* handle_machine_code checking nothing of the text it was sent
machine_code_outcome_unvalidated(user_id, db_user, text) ==
  IF db_user.is_banned THEN "banned"
  ELSE IF ~is_admin(user_id) /\ db_user.request_count >= max_user_requests THEN "limit"
  ELSE "generate"

\* handle_machine_code with the admin check before the ban check
machine_code_outcome_admin_first(user_id, db_user, text) ==
  IF ~is_admin(user_id) /\ db_user.is_banned THEN "banned"
  ELSE IF ~is_admin(user_id) /\ db_user.request_count >= max_user_requests THEN "limit"
  ELSE IF ~validate_machine_code(trim(text)) THEN "invalid"
  ELSE "generate"

\* handle_machine_code with the validation before the limit check
machine_code_outcome_validation_first(user_id, db_user, text) ==
  IF db_user.is_banned THEN "banned"
  ELSE IF ~validate_machine_code(trim(text)) THEN "invalid"
  ELSE IF ~is_admin(user_id) /\ db_user.request_count >= max_user_requests THEN "limit"
  ELSE "generate"

\* handle_machine_code after get_user_by_id: the ban check, the limit
\* check, the validation of the trimmed text
machine_code_outcome(user_id, db_user, text) ==
  IF db_user.is_banned THEN "banned"
  ELSE IF ~is_admin(user_id) /\ db_user.request_count >= max_user_requests THEN "limit"
  ELSE IF ~validate_machine_code(trim(text)) THEN "invalid"
  ELSE "generate"

\* a row with the Advanced key of the first result of generate_all
activation_log_row_advanced(user_id, clean) ==
  IF generate_all_values[CodeIndex(clean)].ok
  THEN Some([user_id |-> user_id,
             machine_code |-> clean,
             activation_code |-> generate_all_values[CodeIndex(clean)].val[1].advanced_code,
             finalshell_version |-> detect_version(clean).version])
  ELSE None

\* if let Ok((activation_code, version)) = generate(&clean_machine_code):
\* the row log_activation inserts, if any
activation_log_row(user_id, clean) ==
  IF generate_values[CodeIndex(clean)].ok
  THEN Some([user_id |-> user_id,
             machine_code |-> clean,
             activation_code |-> generate_values[CodeIndex(clean)].val[1],
             finalshell_version |-> generate_values[CodeIndex(clean)].val[2].version])
  ELSE None

\* bot.send_message(chat, ..) of a handler: the chat and the kind of message
Sent(h, to, what) ==
  [h EXCEPT !.sent = Append(@, [to |-> to, what |-> what, text |-> << >>, codes |-> << >>])]

\* bot.send_message(chat, text) with the text that a claim is about
SentText(h, to, what, text) ==
  [h EXCEPT !.sent = Append(@, [to |-> to, what |-> what, text |-> text, codes |-> << >>])]

\* a write of a handler to the database, the dialogue storage or the file system
Wrote(h, what) == [h EXCEPT !.wrote = Append(@, what)]

\* the handler returns
Return(h) == [h EXCEPT !.pc = "done"]

\* the handler of chat c is at position pc of endpoint e
At(c, e, pc) == handler[c].endpoint = e /\ handler[c].pc = pc

\* the refusal every admin-only command begins with
Refused(c) ==
  /\ ~is_admin(handler[c].user)
  /\ handler' = [handler EXCEPT ![c] = Return(Sent(@, c, "admin_only"))]
  /\ UNCHANGED << core_vars, call_vars, thread_vars, db_vars, log_files, dialogue, received, served, prompted >>

\* the dispatcher takes the next update of a chat: a message of a user
Receive(c) ==
  /\ handler[c].pc = "idle"
  /\ received < MaxUpdates
  /\ received' = received + 1
  /\ \E u \in Senders(c), m \in Messages :
       handler' = [handler EXCEPT ![c] =
                     [IdleHandler EXCEPT !.user = u, !.msg = m, !.pc = "run",
                                         !.endpoint = endpoint_of(dialogue[c], m)]]
  /\ UNCHANGED << core_vars, call_vars, thread_vars, db_vars, log_files, dialogue, served, prompted >>

\* start: get_or_create_user finds the row, or not; then the ban check, the
\* welcome and dialogue.update(State::Start)
StartSelect(c) ==
  /\ At(c, "start", "run") \/ At(c, "start", "reselect")
  /\ \E r \in { get_user_by_id(handler[c].user) } :
       IF ~r.ok
       THEN /\ handler' = [handler EXCEPT ![c] =
                             IF handler[c].pc = "run" THEN [@ EXCEPT !.pc = "insert"]
                             ELSE Return(@)]
            /\ dialogue' = dialogue
       ELSE IF r.val.is_banned
       THEN /\ handler' = [handler EXCEPT ![c] =
                             Return(Sent([@ EXCEPT !.db_user = r.val], c, "banned"))]
            /\ dialogue' = dialogue
       ELSE /\ handler' = [handler EXCEPT ![c] =
                             Return(Wrote(Sent([@ EXCEPT !.db_user = r.val], c, "welcome"),
                                          "dialogue"))]
            /\ dialogue' = [dialogue EXCEPT ![c] = "Start"]
  /\ UNCHANGED << core_vars, call_vars, thread_vars, db_vars, log_files, received, served, prompted >>

\* get_or_create_user: INSERT INTO users; user_id is UNIQUE, so the INSERT
\* is an Err when another handler has inserted the row meanwhile
StartInsert(c) ==
  /\ At(c, "start", "insert")
  /\ IF users[handler[c].user].exists
     THEN /\ users' = users
          /\ handler' = [handler EXCEPT ![c] = Return(@)]
     ELSE /\ users' = [users EXCEPT ![handler[c].user] = NewRow]
          /\ handler' = [handler EXCEPT ![c] = Wrote([@ EXCEPT !.pc = "reselect"], "insert_user")]
  /\ UNCHANGED << core_vars, call_vars, thread_vars, activation_logs, log_files, dialogue, received, served, prompted >>

\* help and about_bot: a message, nothing else
Help(c) ==
  /\ At(c, "help", "run")
  /\ handler' = [handler EXCEPT ![c] = Return(Sent(@, c, "help"))]
  /\ UNCHANGED << core_vars, call_vars, thread_vars, db_vars, log_files, dialogue, received, served, prompted >>

AboutBot(c) ==
  /\ At(c, "about", "run")
  /\ handler' = [handler EXCEPT ![c] = Return(Sent(@, c, "about"))]
  /\ UNCHANGED << core_vars, call_vars, thread_vars, db_vars, log_files, dialogue, received, served, prompted >>

\* stats, users, guard_report: the refusal, or a report read from the database
Stats(c) ==
  /\ At(c, "stats", "run")
  /\ \/ Refused(c)
     \/ /\ is_admin(handler[c].user)
        /\ handler' = [handler EXCEPT ![c] = Return(Sent(@, c, "stats"))]
        /\ UNCHANGED << core_vars, call_vars, thread_vars, db_vars, log_files, dialogue, received, served, prompted >>

Users(c) ==
  /\ At(c, "users", "run")
  /\ \/ Refused(c)
     \/ /\ is_admin(handler[c].user)
        /\ handler' = [handler EXCEPT ![c] =
                         Return(Sent(@, c, IF get_all_users = << >> THEN "no_users" ELSE "users"))]
        /\ UNCHANGED << core_vars, call_vars, thread_vars, db_vars, log_files, dialogue, received, served, prompted >>

GuardReport(c) ==
  /\ At(c, "guard", "run")
  /\ \/ Refused(c)
     \/ /\ is_admin(handler[c].user)
        /\ handler' = [handler EXCEPT ![c] = Return(Sent(@, c, "health_report"))]
        /\ UNCHANGED << core_vars, call_vars, thread_vars, db_vars, log_files, dialogue, received, served, prompted >>

\* ban_user: the refusal; or the id parsed and database::ban_user
BanUser(c) ==
  /\ At(c, "ban", "run")
  /\ \/ Refused(c)
     \/ /\ is_admin(handler[c].user)
        /\ \E t \in { parse_i64(handler[c].msg.text) } :
             IF t = None
             THEN /\ users' = users
                  /\ handler' = [handler EXCEPT ![c] = Return(Sent(@, c, "bad_user_id"))]
             ELSE /\ users' = db_ban_user(users, t[1])
                  /\ handler' = [handler EXCEPT ![c] = Return(Wrote(Sent(@, c, "ban_ok"), "ban"))]
        /\ UNCHANGED << core_vars, call_vars, thread_vars, activation_logs, log_files, dialogue, received, served, prompted >>

\* unban_user: the refusal; or the id parsed and database::unban_user
UnbanUser(c) ==
  /\ At(c, "unban", "run")
  /\ \/ Refused(c)
     \/ /\ is_admin(handler[c].user)
        /\ \E t \in { parse_i64(handler[c].msg.text) } :
             IF t = None
             THEN /\ users' = users
                  /\ handler' = [handler EXCEPT ![c] = Return(Sent(@, c, "bad_user_id"))]
             ELSE /\ users' = db_unban_user(users, t[1])
                  /\ handler' = [handler EXCEPT ![c] = Return(Wrote(Sent(@, c, "unban_ok"), "unban"))]
        /\ UNCHANGED << core_vars, call_vars, thread_vars, activation_logs, log_files, dialogue, received, served, prompted >>

\* broadcast_start: the refusal; or the empty message refused; or the
\* prompt and dialogue.update(State::AdminBroadcast)
BroadcastStart(c) ==
  /\ At(c, "say", "run")
  /\ \/ Refused(c)
     \/ /\ is_admin(handler[c].user)
        /\ IF trim(handler[c].msg.text) = << >>
           THEN /\ handler' = [handler EXCEPT ![c] = Return(Sent(@, c, "empty_broadcast"))]
                /\ UNCHANGED << dialogue, prompted >>
           ELSE /\ handler' = [handler EXCEPT ![c] =
                                 Return(Wrote(SentText(@, c, "confirm_prompt", @.msg.text),
                                              "dialogue"))]
                /\ prompted' = [prompted EXCEPT ![c] = handler[c].msg.text]
                /\ dialogue' = [dialogue EXCEPT ![c] = "AdminBroadcast"]
        /\ UNCHANGED << core_vars, call_vars, thread_vars, db_vars, log_files, received, served >>

\* the messages of a broadcast: one to ChatId(user_id) of every user that
\* is not banned
\* let broadcast_msg
broadcast_msg ==
  << "U+1F4E2", " ", "U+7CFB", "U+7EDF", "U+5E7F", "U+64AD", "U+6D88", "U+606F" >>

\* handle_broadcast, the loop before it has looked at a user
BroadcastLoop(h) == [h |-> h, success_count |-> 0, failed_count |-> 0]

\* handle_broadcast, the loop given up at the first delivery that fails
RECURSIVE broadcast_to_until_failure(_, _, _)
broadcast_to_until_failure(st, ids, failing) ==
  IF ids = << >> THEN st
  ELSE IF users[ids[1]].is_banned THEN broadcast_to_until_failure(st, Tail(ids), failing)
  ELSE IF ids[1] \in failing
  THEN [st EXCEPT !.h = SentText(@, ids[1], "broadcast_failed", broadcast_msg),
                  !.failed_count = @ + 1]
  ELSE broadcast_to_until_failure(
         [st EXCEPT !.h = SentText(@, ids[1], "broadcast", broadcast_msg),
                    !.success_count = @ + 1],
         Tail(ids), failing)

\* handle_broadcast, the loop over the rows of get_all_users: a banned user
\* is passed over, the send to any other user is delivered ("broadcast") or
\* fails ("broadcast_failed", for the users of failing), and is counted
RECURSIVE broadcast_to(_, _, _)
broadcast_to(st, ids, failing) ==
  IF ids = << >> THEN st
  ELSE broadcast_to(
         IF users[ids[1]].is_banned THEN st
         ELSE IF ids[1] \in failing
         THEN [st EXCEPT !.h = SentText(@, ids[1], "broadcast_failed", broadcast_msg),
                         !.failed_count = @ + 1]
         ELSE [st EXCEPT !.h = SentText(@, ids[1], "broadcast", broadcast_msg),
                         !.success_count = @ + 1],
         Tail(ids), failing)

\* handle_broadcast: format!("... {} ...{} ...", success_count, failed_count)
result_msg(success_count, failed_count) ==
  << "U+2705", " ", "U+5E7F", "U+64AD", "U+53D1", "U+9001", "U+5B8C", "U+6210", "\n", "\n",
     "U+6210", "U+529F", ":", " " >> \o to_string(success_count) \o << " ", "U+4EBA", "\n",
     "U+5931", "U+8D25", ":", " " >> \o to_string(failed_count) \o << " ", "U+4EBA" >>

\* the users a broadcast of this handler would try: none unless an admin
\* confirms
BroadcastTargets(c) ==
  IF is_admin(handler[c].user) /\ trim(text_of(handler[c].msg)) = Confirm
  THEN { u \in UserIds : users[u].exists /\ ~users[u].is_banned }
  ELSE { }

\* handle_broadcast: a user who is no admin resets the dialogue and gets no
\* message; the reply "confirm" of an admin sends the broadcast, each
\* delivery succeeding or failing, and reports the two counts; any other
\* reply cancels it; dialogue.update(State::Start)
HandleBroadcast(c) ==
  /\ At(c, "handle_broadcast", "run")
  /\ dialogue' = [dialogue EXCEPT ![c] = "Start"]
  /\ \E failing \in SUBSET BroadcastTargets(c) :
       handler' = [handler EXCEPT ![c] =
         IF ~is_admin(handler[c].user)
         THEN Return(Wrote(@, "dialogue"))
         ELSE IF trim(text_of(handler[c].msg)) = Confirm
         THEN LET st == broadcast_to(BroadcastLoop(handler[c]), get_all_users, failing)
              IN Return(Wrote(SentText(st.h, c, "broadcast_done",
                                       result_msg(st.success_count, st.failed_count)),
                              "dialogue"))
         ELSE Return(Wrote(Sent(@, c, "broadcast_cancelled"), "dialogue"))]
  /\ UNCHANGED << core_vars, call_vars, thread_vars, db_vars, log_files, received, served, prompted >>

\* clear_stats: the refusal; or database::clear_stats, first statement:
\* DELETE FROM activation_logs
ClearStats(c) ==
  /\ At(c, "clear", "run")
  /\ \/ Refused(c)
     \/ /\ is_admin(handler[c].user)
        /\ activation_logs' = << >>
        /\ handler' = [handler EXCEPT ![c] = Wrote([@ EXCEPT !.pc = "reset"], "delete_logs")]
        /\ UNCHANGED << core_vars, call_vars, thread_vars, users, log_files, dialogue, received, served, prompted >>

\* database::clear_stats, second statement: UPDATE users SET request_count
\* = 0; then the message
ClearStatsReset(c) ==
  /\ At(c, "clear", "reset")
  /\ users' = [u \in UserIds |->
                 IF users[u].exists THEN [users[u] EXCEPT !.request_count = 0] ELSE users[u]]
  /\ served' = [u \in UserIds |-> 0]
  /\ handler' = [handler EXCEPT ![c] = Return(Wrote(Sent(@, c, "clear_ok"), "reset_counts"))]
  /\ UNCHANGED << core_vars, call_vars, thread_vars, activation_logs, log_files, dialogue, received, prompted >>

\* cleanup_logs: the refusal; or utils::cleanup_logs removing the log files
\* older than 7 days
CleanupLogs(c) ==
  /\ At(c, "cleanup", "run")
  /\ \/ Refused(c)
     \/ /\ is_admin(handler[c].user)
        /\ log_files' = { f \in log_files : ~f.old }
        /\ handler' = [handler EXCEPT ![c] =
                         IF log_files' = log_files
                         THEN Return(Sent(@, c, "cleanup_ok"))
                         ELSE Return(Wrote(Sent(@, c, "cleanup_ok"), "remove_file"))]
        /\ UNCHANGED << core_vars, call_vars, thread_vars, db_vars, dialogue, received, served, prompted >>

\* handle_machine_code: get_user_by_id; the ban check; the limit check and
\* its message; the validation and its message
HandleMachineCode(c) ==
  /\ At(c, "handle_machine_code", "run")
  /\ \E r \in { get_user_by_id(handler[c].user) } :
       handler' = [handler EXCEPT ![c] =
         IF ~r.ok THEN Return(@)
         ELSE CASE machine_code_outcome(@.user, r.val, text_of(@.msg)) = "banned" ->
                     Return(Sent([@ EXCEPT !.db_user = r.val], c, "banned"))
                [] machine_code_outcome(@.user, r.val, text_of(@.msg)) = "limit" ->
                     Sent([@ EXCEPT !.db_user = r.val, !.pc = "ban"], c, "limit")
                [] machine_code_outcome(@.user, r.val, text_of(@.msg)) = "invalid" ->
                     Return(Sent([@ EXCEPT !.db_user = r.val], c, "format_error"))
                [] OTHER -> [@ EXCEPT !.db_user = r.val, !.pc = "count"]]
  /\ UNCHANGED << core_vars, call_vars, thread_vars, db_vars, log_files, dialogue, received, served, prompted >>

\* handle_machine_code at the limit: database::ban_user, return
HandleMachineCodeBan(c) ==
  /\ At(c, "handle_machine_code", "ban")
  /\ users' = db_ban_user(users, handler[c].user)
  /\ handler' = [handler EXCEPT ![c] = Return(Wrote(@, "ban"))]
  /\ UNCHANGED << core_vars, call_vars, thread_vars, activation_logs, log_files, dialogue, received, served, prompted >>

\* handle_machine_code, format_all_codes was Ok: update_user_request_count
HandleMachineCodeCount(c) ==
  /\ At(c, "handle_machine_code", "count")
  /\ users' = update_user_request_count(users, handler[c].user)
  /\ handler' = [handler EXCEPT ![c] = Wrote([@ EXCEPT !.pc = "log"], "count")]
  /\ UNCHANGED << core_vars, call_vars, thread_vars, activation_logs, log_files, dialogue, received, served, prompted >>

\* handle_machine_code: generate and log_activation, then the response
\* with the codes of format_all_codes
HandleMachineCodeLog(c) ==
  /\ At(c, "handle_machine_code", "log")
  /\ \E clean \in { clean_machine_code(trim(text_of(handler[c].msg))) } :
       \E row \in { activation_log_row(handler[c].user, clean) } :
         /\ activation_logs' = activation_logs \o row
         /\ handler' = [handler EXCEPT ![c] =
              Return([(IF row = None THEN @ ELSE Wrote(@, "log")) EXCEPT
                        !.sent = Append(@, [to |-> c, what |-> "codes", text |-> << >>,
                                            codes |-> generate_all_values[CodeIndex(clean)].val])])]
  /\ served' = [served EXCEPT ![handler[c].user] = @ + 1]
  /\ UNCHANGED << core_vars, call_vars, thread_vars, users, log_files, dialogue, received, prompted >>

\* the dispatcher is done with the update of a chat
Finish(c) ==
  /\ handler[c].pc = "done"
  /\ handler' = [handler EXCEPT ![c] = IdleHandler]
  /\ UNCHANGED << core_vars, call_vars, thread_vars, db_vars, log_files, dialogue, received, served, prompted >>

InitBot ==
  /\ CoreIdle
  /\ CallsIdle
  /\ ThreadsIdle
  /\ BotIdle

NextBot ==
  \E c \in ChatIds :
    \/ Receive(c)
    \/ StartSelect(c)
    \/ StartInsert(c)
    \/ Help(c)
    \/ AboutBot(c)
    \/ Stats(c)
    \/ Users(c)
    \/ GuardReport(c)
    \/ BanUser(c)
    \/ UnbanUser(c)
    \/ BroadcastStart(c)
    \/ HandleBroadcast(c)
    \/ ClearStats(c)
    \/ ClearStatsReset(c)
    \/ CleanupLogs(c)
    \/ HandleMachineCode(c)
    \/ HandleMachineCodeBan(c)
    \/ HandleMachineCodeCount(c)
    \/ HandleMachineCodeLog(c)
    \/ Finish(c)

SpecBot == InitBot /\ [][NextBot]_vars

\* the runtime goes on with a handler that can go on: the task of
\* handle_broadcast is not left waiting for ever
SpecBotFair == SpecBot /\ \A c \in ChatIds : WF_vars(HandleBroadcast(c))

\* ------------------------------------------------------------ claims: normalizer

\* the character class [A-Za-z0-9@_-] of the specification
MachineCodeChars == AsciiUppercase \cup AsciiLowercase \cup AsciiDigit \cup { "@", "_", "-" }

\* C1: validate_machine_code(raw) is true if and only if the trimmed raw has
\* length >= 8 and every character of the trimmed raw is in [A-Za-z0-9@_-]
\* (the length test applies to the trimmed string).
C1_ValidateIffTrimmedLongAndLegal ==
  valid # None =>
    valid[1] = ( /\ Len(trim(machine_code)) >= 8
                 /\ \A i \in 1..Len(trim(machine_code)) :
                      trim(machine_code)[i] \in MachineCodeChars )

\* MachineCode of the data model: length >= 8, every character ASCII
\* alphanumeric or one of - _ @, no whitespace or control character
IsMachineCode(s) ==
  /\ Len(s) >= 8
  /\ \A i \in 1..Len(s) : s[i] \in MachineCodeChars /\ ~is_whitespace(s[i])

\* C2: for every raw string on which validate_machine_code is true,
\* clean_machine_code(raw) is a MachineCode.
C2_CleanOfValidIsMachineCode ==
  (valid = Some(TRUE) /\ cleaned # None) => IsMachineCode(cleaned[1])

TestCleanInput ==
  << " ", "A", "B", "C", " ", "1", "2", "3", "\n", "D", "E", "F", "\t", "4", "5", "6", " " >>

TestCleanExpected ==
  << "A", "B", "C", "1", "2", "3", "D", "E", "F", "4", "5", "6" >>

\* C3: clean_machine_code(raw) is the trimmed raw with every space, '\n',
\* '\r' and '\t' removed and all other characters kept in order (the test
\* vector becomes "ABC123DEF456"), and cleaning the result again changes nothing.
C3_CleanStripsAndIsIdempotent ==
  /\ cleaned # None =>
       /\ cleaned[1] = SelectSeq(trim(machine_code),
                                 LAMBDA x : x \notin { " ", "\n", "\r", "\t" })
       /\ (machine_code = TestCleanInput => cleaned[1] = TestCleanExpected)
  /\ recleaned # None => recleaned[1] = cleaned[1]

\* C3 witness: the test vector, with whitespace at both ends and inside,
\* cleaned and cleaned again
C3_Witness ==
  /\ machine_code = TestCleanInput
  /\ cleaned = Some(TestCleanExpected)
  /\ recleaned = Some(TestCleanExpected)

\* C4 (original claim): every input that contains '@' is rejected, whatever
\* its length.
C4_AtSignAlwaysRejected ==
  (valid # None /\ contains(machine_code, "@")) => valid[1] = FALSE

\* the input with every '@' replaced by the letter 'A'
AtSignAsLetter(s) ==
  SubSeq([i \in 1..Len(s) |-> IF s[i] = "@" THEN "A" ELSE s[i]], 1, Len(s))

\* C4 (amended): '@' is an accepted character: an input gets the verdict of
\* the same input with every '@' replaced by the letter 'A'; "ABC@123" is
\* rejected (it has 7 characters) and "ABC@1234"-like inputs are accepted.
C4_AtSignAcceptedLikeALetter ==
  valid # None =>
    /\ valid[1] = validate_machine_code(AtSignAsLetter(machine_code))
    /\ (machine_code = << "A", "B", "C", "@", "1", "2", "3" >> => valid[1] = FALSE)
    /\ (machine_code = Filled(8, 4, "@", 0, "@") => valid[1] = TRUE)

\* C4 witness: an input containing '@' was accepted
C4_Witness ==
  /\ contains(machine_code, "@")
  /\ valid = Some(TRUE)

\* ------------------------------------------------------------ claims: classifier

VersionLabels == { "< 3.9.6", ">= 3.9.6", "4.5", "4.6+" }

\* C5: detect_version is the first match of: length < 15 gives "< 3.9.6"
\* (legacy); contains '-' and length > 25 gives "4.6+"; length > 20 gives
\* ">= 3.9.6"; otherwise "4.5". is_legacy holds exactly for "< 3.9.6", a
\* dash-free code longer than 20 is ">= 3.9.6", and there is no fifth label.
C5_DetectVersionFirstMatch ==
  version # None =>
    LET n == Len(machine_code)
        dash == \E i \in 1..n : machine_code[i] = "-"
        v == version[1]
    IN /\ n < 15 => v = [version |-> "< 3.9.6", is_legacy |-> TRUE]
       /\ (n >= 15 /\ dash /\ n > 25) => v = [version |-> "4.6+", is_legacy |-> FALSE]
       /\ (n >= 15 /\ ~(dash /\ n > 25) /\ n > 20) =>
            v = [version |-> ">= 3.9.6", is_legacy |-> FALSE]
       /\ (n >= 15 /\ ~(dash /\ n > 25) /\ n <= 20) =>
            v = [version |-> "4.5", is_legacy |-> FALSE]
       /\ v.is_legacy <=> v.version = "< 3.9.6"
       /\ (~dash /\ n > 20) => v.version = ">= 3.9.6"
       /\ v.version \in VersionLabels

\* C5 witness: a dash-free code of 26 characters was classified ">= 3.9.6"
C5_Witness ==
  /\ Len(machine_code) = 26
  /\ ~contains(machine_code, "-")
  /\ version = Some([version |-> ">= 3.9.6", is_legacy |-> FALSE])

\* ------------------------------------------------------------ claims: generator

\* the code of the end-to-end vector
TestCode == << "A", "B", "C", "1", "2", "3", "D", "E", "F", "4", "5", "6" >>

\* n lowercase hex digits
IsLowerHex(h, n) ==
  /\ Len(h) = n
  /\ \A i \in 1..n : h[i] \in AsciiDigit \cup { "a", "b", "c", "d", "e", "f" }

\* characters [lo, hi) of h, uppercased
UpperSlice(h, lo, hi) == to_uppercase(SubSeq(h, lo + 1, hi))

\* the Legacy salts of the specification, per tier: << prefix, suffix >>
LegacySalt ==
  [Advanced |-> << << "6", "1", "3", "0", "5" >>, << "8", "5", "5", "2" >> >>,
   Professional |-> << << "2", "3", "5", "6" >>, << "1", "3", "5", "9", "3" >> >>]

\* the MD5 hex digest of prefix + code + suffix of a tier
LegacyDigest(tier) ==
  md5_hex(as_bytes(LegacySalt[tier][1] \o machine_code \o LegacySalt[tier][2]))

\* C6: the two keys of the Legacy result are the uppercased characters
\* [8,24) of the 32-character lowercase hex MD5 digest of prefix + code +
\* suffix, with "61305"/"8552" for Advanced and "2356"/"13593" for
\* Professional; for "ABC123DEF456" the Professional key is that part of
\* MD5("2356ABC123DEF45613593") = 5a7fe69df0a82121ded0ada219c11471.
C6_LegacyKeysFromMd5 ==
  Len(results) >= 1 =>
    /\ results[1].version_type = "Legacy"
    /\ hashed[1].family = "md5" /\ hashed[2].family = "md5"
    /\ hashed[1].data = LegacySalt.Advanced[1] \o machine_code \o LegacySalt.Advanced[2]
    /\ hashed[2].data = LegacySalt.Professional[1] \o machine_code \o LegacySalt.Professional[2]
    /\ hashed[1].res = Ok(LegacyDigest("Advanced"))
    /\ hashed[2].res = Ok(LegacyDigest("Professional"))
    /\ IsLowerHex(hashed[1].res.val, 32) /\ IsLowerHex(hashed[2].res.val, 32)
    /\ results[1].advanced_code = UpperSlice(hashed[1].res.val, 8, 24)
    /\ results[1].professional_code = UpperSlice(hashed[2].res.val, 8, 24)
    /\ machine_code = TestCode =>
         /\ hashed[2].data = << "2", "3", "5", "6" >> \o TestCode \o << "1", "3", "5", "9", "3" >>
         /\ results[1].professional_code =
              << "F", "0", "A", "8", "2", "1", "2", "1", "D", "E", "D", "0", "A", "D", "A", "2" >>

\* C6 witness: the Legacy result of "ABC123DEF456" was pushed, with the
\* keys MD5 gives for the two salted inputs
C6_Witness ==
  /\ machine_code = TestCode
  /\ Len(results) >= 1
  /\ results[1].advanced_code =
       << "1", "E", "2", "A", "9", "5", "4", "2", "F", "D", "1", "5", "B", "A", "6", "7" >>
  /\ results[1].professional_code =
       << "F", "0", "A", "8", "2", "1", "2", "1", "D", "E", "D", "0", "A", "D", "A", "2" >>

\* the suffixes of the specification for the variants at positions 2..4 of
\* generate_all, per tier
ModernSuffix ==
  << << >>,
     [Advanced |-> << "h", "S", "f", "(", "7", "8", "c", "v", "V", "l", "S", "5", "E" >>,
      Professional |-> << "F", "F", "3", "G", "o", "(", "*", "X", "v", "b", "b", "5", "s", "2" >>],
     [Advanced |-> << "w", "c", "e", "g", "S", "3", "g", "z", "A", "$" >>,
      Professional |-> << "b", "(", "x", "x", "k", "H", "n", "%", "z", ")", ";", "x" >>],
     [Advanced |-> << "c", "s", "S", "f", "5", "*", "x", "l", "k", "g", "Y", "S", "X", ",", "y" >>,
      Professional |-> << "S", "c", "f", "g", "*", "Z", "k", "v", "J", "Z", "c", ",", "s", ",", "Y" >>] >>

\* the keys of "ABC123DEF456" for the variants at positions 2..4, from a
\* reference implementation of Keccak-384: << Advanced, Professional >>
TestModernKeys ==
  << << >>,
     << << "3", "5", "1", "8", "2", "A", "1", "C", "2", "B", "A", "1", "2", "6", "F", "6" >>,
        << "7", "0", "C", "B", "F", "0", "9", "2", "8", "0", "5", "F", "4", "7", "9", "D" >> >>,
     << << "A", "6", "9", "1", "E", "3", "7", "A", "0", "5", "7", "6", "3", "6", "7", "F" >>,
        << "6", "D", "5", "5", "F", "8", "8", "A", "C", "C", "2", "4", "D", "E", "C", "E" >> >>,
     << << "E", "F", "7", "B", "9", "E", "5", "2", "3", "B", "1", "E", "3", "8", "B", "A" >>,
        << "6", "7", "C", "2", "7", "E", "5", "D", "F", "F", "C", "8", "5", "0", "6", "F" >> >> >>

\* C7: for the variants V396Plus, V45 and V46, both keys are the uppercased
\* characters [12,28) of the 96-character lowercase hex Keccak-384 digest of
\* code + suffix, the suffix being the literal of that (variant, tier); none
\* of them is made with MD5, with a prefix, or from another range. The
\* digest of the latest push is recomputed from the code and the suffix.
C7_ModernKeysFromKeccak384 ==
  \A k \in 2..Len(results) :
    /\ results[k].version_type = << "Legacy", "V396Plus", "V45", "V46" >>[k]
    /\ hashed[2 * k - 1].family = "keccak384" /\ hashed[2 * k].family = "keccak384"
    /\ hashed[2 * k - 1].data = machine_code \o ModernSuffix[k].Advanced
    /\ hashed[2 * k].data = machine_code \o ModernSuffix[k].Professional
    /\ hashed[2 * k - 1].res.ok /\ hashed[2 * k].res.ok
    /\ IsLowerHex(hashed[2 * k - 1].res.val, 96) /\ IsLowerHex(hashed[2 * k].res.val, 96)
    /\ results[k].advanced_code = UpperSlice(hashed[2 * k - 1].res.val, 12, 28)
    /\ results[k].professional_code = UpperSlice(hashed[2 * k].res.val, 12, 28)
    /\ (k = Len(results) /\ all_ret = None) =>
         /\ hashed[2 * k - 1].res.val =
              keccak384_hex(as_bytes(machine_code \o ModernSuffix[k].Advanced))
         /\ hashed[2 * k].res.val =
              keccak384_hex(as_bytes(machine_code \o ModernSuffix[k].Professional))
    /\ machine_code = TestCode =>
         /\ results[k].advanced_code = TestModernKeys[k][1]
         /\ results[k].professional_code = TestModernKeys[k][2]

\* C7 witness: the three Keccak-384 variants of "ABC123DEF456" were pushed,
\* with the keys of the reference implementation
C7_Witness ==
  /\ machine_code = TestCode
  /\ Len(results) = 4
  /\ \A k \in 2..4 : /\ results[k].advanced_code = TestModernKeys[k][1]
                     /\ results[k].professional_code = TestModernKeys[k][2]

\* C9: generate_all succeeds on every input and returns exactly 4 results,
\* of the variants Legacy, V396Plus, V45, V46 in this order, whatever the
\* classifier says of the input.
C9_GenerateAllFourInOrder ==
  all_ret # None =>
    /\ all_ret[1] = Ok(results)
    /\ Len(all_ret[1].val) = 4
    /\ [k \in 1..4 |-> all_ret[1].val[k].version_type]
         = << "Legacy", "V396Plus", "V45", "V46" >>

\* C9 witness: generate_all returned its 4 results for a code the
\* classifier labels "4.6+"
C9_Witness ==
  /\ all_ret # None
  /\ all_ret[1].ok
  /\ Len(all_ret[1].val) = 4
  /\ detect_version(machine_code).version = "4.6+"

\* the position in generate_all of the variant of a label
VariantOfLabel(label) ==
  CASE label = "< 3.9.6" -> 1
    [] label = ">= 3.9.6" -> 2
    [] label = "4.5" -> 3
    [] label = "4.6+" -> 4
    [] OTHER -> 2

\* C10: generate(code) returns (k, v) with v = detect_version(code) and k
\* the professional_code of the generate_all(code) entry of the variant of
\* v's label; k is no advanced_code and no key of another variant.
\* (detect_version has four labels, so the arm of "any other label" is
\* never taken.)
C10_GenerateIsProfessionalOfDetected ==
  gen_ret # None =>
    LET v == detect_version(machine_code)
        n == VariantOfLabel(v.version)
        all == all_ret[1].val
    IN /\ gen_ret[1].ok
       /\ gen_ret[1].val = << all[n].professional_code, v >>
       /\ \A j \in 1..4 : gen_ret[1].val[1] # all[j].advanced_code
       /\ \A j \in (1..4) \ { n } : gen_ret[1].val[1] # all[j].professional_code

\* C10 witness: generate returned the V45 Professional key for a code the
\* classifier labels "4.5"
C10_Witness ==
  /\ gen_ret # None
  /\ gen_ret[1].ok
  /\ gen_ret[1].val[2].version = "4.5"
  /\ gen_ret[1].val[1] = results[3].professional_code
  /\ gen_ret[1].val[1] # results[3].advanced_code

\* ------------------------------------------------------------ claims: key format

UpperHexDigits == AsciiDigit \cup { "A", "B", "C", "D", "E", "F" }

\* a key of the specification: exactly 16 characters, each one of 0-9 A-F
IsKey(k) == Len(k) = 16 /\ \A i \in 1..16 : k[i] \in UpperHexDigits

\* C11: for every input, the advanced_code and the professional_code of each
\* result of generate_all, and the key returned by generate, are exactly 16
\* characters long, each character one of 0-9 A-F.
C11_KeysAre16UpperHex ==
  /\ \A k \in 1..Len(results) : /\ IsKey(results[k].advanced_code)
                                 /\ IsKey(results[k].professional_code)
  /\ (all_ret # None /\ all_ret[1].ok) =>
       \A k \in 1..Len(all_ret[1].val) : /\ IsKey(all_ret[1].val[k].advanced_code)
                                          /\ IsKey(all_ret[1].val[k].professional_code)
  /\ (gen_ret # None /\ gen_ret[1].ok) => IsKey(gen_ret[1].val[1])

\* C11 witness: generate_all and generate have returned for a code in lower
\* case with '@', and one of the keys holds a letter A-F
C11_Witness ==
  /\ machine_code \in BotExamples
  /\ all_ret # None /\ all_ret[1].ok /\ Len(all_ret[1].val) = 4
  /\ gen_ret # None /\ gen_ret[1].ok
  /\ \E i \in 1..16 : gen_ret[1].val[1][i] \in { "A", "B", "C", "D", "E", "F" }

\* ------------------------------------------------------------ claims: repeated calls

LinesOf(s) ==
  Only({ SubSeq([k \in 1..Len(e) |->
                   SubSeq(s, (IF k = 1 THEN 1 ELSE e[k - 1] + 1), e[k] - 1)],
                1, Len(e))
         : e \in { SelectSeq(Positions(Len(s)), LAMBDA k : s[k] = "\n") } })

\* sub occurs in s
IsInfix(sub, s) ==
  \E i \in 0..(Len(s) - Len(sub)) : SubSeq(s, i + 1, i + Len(sub)) = sub

\* s ends with suf
EndsWith(s, suf) ==
  Len(suf) <= Len(s) /\ SubSeq(s, Len(s) - Len(suf) + 1, Len(s)) = suf

\* the numbers of the lines of L in which sub occurs, ascending
LinesWith(sub, L) ==
  SelectSeq(Positions(Len(L)), LAMBDA k : IsInfix(sub, L[k]))

\* the tier names of the report
TierAdvanced == << "U+9AD8", "U+7EA7", "U+7248" >>
TierProfessional == << "U+4E13", "U+4E1A", "U+7248" >>

\* a key between two backticks
Quoted(key) == << "U+0060" >> \o key \o << "U+0060" >>

\* the labels of the four variants, in the order of generate_all
VariantLabelChars ==
  << << "<", " ", "3", ".", "9", ".", "6" >>,
     << "U+2265", " ", "3", ".", "9", ".", "6" >>,
     << "4", ".", "5" >>,
     << "4", ".", "6", "+" >> >>

\* what the heading of each section displays
SectionNames ==
  << << "F", "i", "n", "a", "l", "S", "h", "e", "l", "l", " " >> \o VariantLabelChars[1],
     << "F", "i", "n", "a", "l", "S", "h", "e", "l", "l", " " >> \o VariantLabelChars[2],
     << "F", "i", "n", "a", "l", "S", "h", "e", "l", "l", " " >> \o VariantLabelChars[3],
     << "F", "i", "n", "a", "l", "S", "h", "e", "l", "l", " ", "4", ".", "6" >> >>

\* generate_all of a code of CallCodes
GenerateAllOf(mc) ==
  generate_all_values[CHOOSE i \in 1..Len(CallCodes) : CallCodes[i] = mc]

\* a report read back: its lines, and the numbers of the lines that hold
\* the name of the Advanced tier and of the Professional tier
ReadReport(text) ==
  Only({ [line |-> L,
          advanced |-> LinesWith(TierAdvanced, L),
          professional |-> LinesWith(TierProfessional, L)]
         : L \in { LinesOf(text) } })

\* the heading of the j-th section of a report read back
Heading(r, j) == r.line[r.advanced[j] - 1]

\* a report read back holds one section per result of generate_all, in the
\* order Legacy, V396Plus, V45, V46: a heading, then the line of the Advanced
\* tier with the advanced_code of the result of the same position, then the
\* line of the Professional tier with its professional_code
SectionsInOrder(r, all) ==
  /\ Len(r.advanced) = 4
  /\ r.professional = [j \in 1..4 |-> r.advanced[j] + 1]
  /\ [j \in 1..4 |-> all[j].version_type] = << "Legacy", "V396Plus", "V45", "V46" >>
  /\ \A j \in 1..4 :
       /\ r.advanced[j] > 1
       /\ (j > 1 => r.advanced[j] - 1 > r.professional[j - 1])
       /\ EndsWith(r.line[r.advanced[j]], Quoted(all[j].advanced_code))
       /\ ~IsInfix(all[j].professional_code, r.line[r.advanced[j]])
       /\ EndsWith(r.line[r.professional[j]], Quoted(all[j].professional_code))
       /\ ~IsInfix(all[j].advanced_code, r.line[r.professional[j]])

FormatCalls == { i \in 1..Len(calls) : calls[i].op = "format_all_codes" /\ calls[i].ret.ok }

\* C13 (original claim): the report has one section per variant in the order
\* Legacy, V396Plus, V45, V46; each lists the Advanced key under the tier name
\* U+9AD8 U+7EA7 U+7248 before the Professional key under U+4E13 U+4E1A U+7248,
\* carries the keys of the generate_all result of the same position, and shows
\* the label of its variant verbatim: "< 3.9.6", "U+2265 3.9.6", "4.5", "4.6+".
C13_SectionsShowVariantLabels ==
  \A i \in FormatCalls :
    \A r \in { ReadReport(calls[i].ret.val) } :
      /\ SectionsInOrder(r, GenerateAllOf(calls[i].arg).val)
      /\ \A j \in 1..4 : IsInfix(VariantLabelChars[j], Heading(r, j))

\* C13 (amended): as the original claim, except that the heading of a section
\* shows the version_name of its result: "FinalShell < 3.9.6", "FinalShell
\* U+2265 3.9.6", "FinalShell 4.5" and "FinalShell 4.6". The first three hold
\* the label of the variant verbatim; the fourth holds "4.6", not "4.6+".
C13_SectionsShowVersionNames ==
  \A i \in FormatCalls :
    \A r \in { ReadReport(calls[i].ret.val) } :
      /\ SectionsInOrder(r, GenerateAllOf(calls[i].arg).val)
      /\ \A j \in 1..4 :
           /\ EndsWith(Heading(r, j), << " " >> \o SectionNames[j])
           /\ GenerateAllOf(calls[i].arg).val[j].version_name = SectionNames[j]
      /\ \A j \in 1..3 : IsInfix(VariantLabelChars[j], Heading(r, j))
      /\ IsInfix(<< "4", ".", "6" >>, Heading(r, 4))
      /\ ~IsInfix(VariantLabelChars[4], Heading(r, 4))

\* C13 witness: format_all_codes returned a report of four sections for the
\* code of the tests, the fourth headed "FinalShell 4.6"
C13_Witness ==
  \E i \in FormatCalls :
    \E r \in { ReadReport(calls[i].ret.val) } :
      /\ calls[i].arg = CallCodes[1]
      /\ Len(r.advanced) = 4
      /\ EndsWith(Heading(r, 4), SectionNames[4])

\* ------------------------------------------------------------ claims: purity

\* the words "generation time" of the time line of the report
GenerationTime == << "U+751F", "U+6210", "U+65F6", "U+95F4" >>

\* the first two readings of the clock, as the report prints them
ClockStartText ==
  << "2", "0", "2", "4", "-", "1", "2", "-", "3", "1", " ", "2", "3", ":", "5", "9", ":",
     "5", "9", " ", "U", "T", "C" >>
ClockNextText ==
  << "2", "0", "2", "5", "-", "0", "1", "-", "0", "1", " ", "0", "0", ":", "0", "0", ":",
     "0", "0", " ", "U", "T", "C" >>

\* a text without its lines that hold the words "generation time"
WithoutTimeLine(text) ==
  SelectSeq(LinesOf(text), LAMBDA l : ~IsInfix(GenerationTime, l))

\* C14 (original claim): every core operation, the formatter included, is
\* pure: two calls of format_all_codes with the same code return the same
\* text, and no core operation reads anything but its arguments and the
\* salt table.
C14_FormatAllCodesPure ==
  \A i, j \in 1..Len(calls) :
    (calls[i].op = calls[j].op /\ calls[i].arg = calls[j].arg)
    => calls[i].ret = calls[j].ret

\* C14 (amended): format_all_codes reads the system clock besides its
\* argument: its report has one line of the generation time, which shows the
\* clock reading of the call to the second ("2024-12-31 23:59:59 UTC"); two
\* calls with the same code return texts that agree in every other line, and
\* the same text when the clock reads the same second. generate_all and
\* generate return the same value at every time.
C14_PureExceptGenerationTime ==
  /\ \A i \in FormatCalls :
       \A r \in { ReadReport(calls[i].ret.val) } :
         \A t \in { LinesWith(GenerationTime, r.line) } :
           /\ Len(t) = 1
           /\ EndsWith(r.line[t[1]], << " " >> \o format_utc(calls[i].at))
           /\ (calls[i].at = ClockStart => EndsWith(r.line[t[1]], ClockStartText))
           /\ (calls[i].at = ClockStart + 1 => EndsWith(r.line[t[1]], ClockNextText))
  /\ \A i, j \in FormatCalls :
       (i < j /\ calls[i].arg = calls[j].arg) =>
         /\ WithoutTimeLine(calls[i].ret.val) = WithoutTimeLine(calls[j].ret.val)
         /\ (calls[i].at = calls[j].at => calls[i].ret = calls[j].ret)
  /\ \A i, j \in 1..Len(calls) :
       ( /\ calls[i].op \in { "generate_all", "generate" }
         /\ calls[i].op = calls[j].op
         /\ calls[i].arg = calls[j].arg
         /\ calls[i].at # calls[j].at )
       => calls[i].ret = calls[j].ret

\* C14 witness: format_all_codes returned for the same code in two different
\* seconds, with two different texts
C14_Witness ==
  \E i, j \in FormatCalls :
    /\ calls[i].arg = calls[j].arg
    /\ calls[i].at < calls[j].at
    /\ calls[i].ret # calls[j].ret
    /\ WithoutTimeLine(calls[i].ret.val) = WithoutTimeLine(calls[j].ret.val)

\* ------------------------------------------------------------ claims: concurrent calls

\* what a call returns when no other call runs
RunAlone(op, arg) ==
  CASE op = "validate_machine_code" -> validate_machine_code(arg)
    [] op = "clean_machine_code" -> clean_machine_code(arg)
    [] op = "detect_version" -> detect_version(arg)
    [] op = "generate_all" -> generate_all_values[CodeIndex(arg)]
    [] op = "generate" -> generate_values[CodeIndex(arg)]

\* C15: concurrent invocations of validate_machine_code, clean_machine_code,
\* detect_version, generate_all and generate, in any interleaving, each
\* return the value the same invocation returns when it runs alone; no
\* invocation writes state another reads: the vector a generate_all call is
\* filling holds the results of its own pushes and nothing else.
C15_ConcurrentCallsReturnRunAloneValue ==
  \A t \in Threads :
    /\ thread[t].pc = "returned" =>
         /\ thread[t].ret = Some(RunAlone(thread[t].op, thread[t].arg))
         /\ (thread[t].op = "clean_machine_code" /\ thread[t].arg = TestCleanInput)
              => thread[t].ret = Some(TestCleanExpected)
         /\ (thread[t].op = "validate_machine_code")
              => thread[t].ret = Some(thread[t].arg # TestCleanInput)
    /\ thread[t].pc = "pushing" =>
         vec[results_of(t)] =
           SubSeq(RunAlone("generate_all", thread[t].arg).val, 1, thread[t].k - 1)

\* C15 witness: a thread has returned from generate_all with its four
\* results while another thread is in the middle of generate_all on
\* another code
C15_Witness ==
  \E t, u \in Threads :
    /\ t # u
    /\ thread[t].op = "generate_all" /\ thread[t].pc = "returned"
    /\ thread[t].ret[1].ok /\ Len(thread[t].ret[1].val) = 4
    /\ thread[u].op = "generate_all" /\ thread[u].pc = "pushing" /\ thread[u].k = 3
    /\ thread[u].arg # thread[t].arg

\* ------------------------------------------------------------ claims: the bot

\* the handler of chat c handles a message that is no command and whose
\* text, trimmed as handle_machine_code trims it, fails validation
RejectedRequest(c) ==
  /\ handler[c].endpoint = "handle_machine_code"
  /\ ~validate_machine_code(trim(text_of(handler[c].msg)))

\* the handler of chat c read a row that is neither banned nor at the limit
ReachedValidation(c) ==
  /\ handler[c].db_user.exists
  /\ ~handler[c].db_user.is_banned
  /\ handler[c].user \in admin_ids \/ handler[c].db_user.request_count < max_user_requests

KindsSent(h) == SubSeq([i \in DOMAIN h.sent |-> h.sent[i].what], 1, Len(h.sent))

\* C16, at every moment of a request whose machine code fails validation:
\* the handler never gets to the count or the log, has sent no codes and
\* has written neither a count nor a log row; once it has returned from the
\* validation it has sent the format error, once, and written nothing
C16_RejectedRequestState ==
  \A c \in ChatIds :
    RejectedRequest(c) =>
      /\ handler[c].pc \in { "run", "ban", "done" }
      /\ \A i \in DOMAIN handler[c].sent : handler[c].sent[i].what # "codes"
      /\ \A i \in DOMAIN handler[c].wrote : handler[c].wrote[i] \notin { "count", "log" }
      /\ (handler[c].pc = "done" /\ ReachedValidation(c)) =>
           /\ KindsSent(handler[c]) = << "format_error" >>
           /\ handler[c].wrote = << >>

\* C16, every step of a request whose machine code fails validation: no
\* request_count changes, the activation log stays as it is
C16_RejectedRequestStep ==
  \A c \in ChatIds :
    (RejectedRequest(c) /\ handler'[c] # handler[c]) =>
      /\ \A u \in UserIds : users'[u].request_count = users[u].request_count
      /\ activation_logs' = activation_logs

\* C16: a request whose machine code fails validation ends with the
\* rejection and nothing else: no key of any variant is derived or sent,
\* no activation-log row is written, request_count is unchanged, and the
\* input is not tried again
C16_InvalidCodeOnlyRejected ==
  /\ []C16_RejectedRequestState
  /\ [][C16_RejectedRequestStep]_vars

\* a request with a code that fails validation was rejected
C16_Witness ==
  \E c \in ChatIds :
    /\ RejectedRequest(c)
    /\ ReachedValidation(c)
    /\ handler[c].pc = "done"
    /\ KindsSent(handler[c]) = << "format_error" >>

\* the handler of chat c has sent the codes of all four variants
CodesSent(h) == \E i \in DOMAIN h.sent : h.sent[i].what = "codes"

\* the triple of a machine code: the code, the Professional key of the
\* result of the variant the classifier names, the label of the classifier
IsDefaultTriple(row) ==
  \E i \in DOMAIN CallCodes :
    /\ row.machine_code = CallCodes[i]
    /\ IsMachineCode(row.machine_code)
    /\ \E n \in { VariantOfLabel(detect_version(CallCodes[i]).version) } :
         /\ row.activation_code = generate_all_values[i].val[n].professional_code
         /\ row.finalshell_version = detect_version(CallCodes[i]).version
         /\ \A j \in 1..4 : row.activation_code # generate_all_values[i].val[j].advanced_code
         /\ \A j \in (1..4) \ { n } :
              row.activation_code # generate_all_values[i].val[j].professional_code

\* C17, every state: every row of activation_logs is the triple of its
\* machine code; a handler that has returned after sending the codes has
\* written one row, a handler that sent no codes has written none
C17_LoggedTriples ==
  /\ \A i \in DOMAIN activation_logs : IsDefaultTriple(activation_logs[i])
  /\ \A c \in ChatIds :
       Cardinality({ i \in DOMAIN handler[c].wrote : handler[c].wrote[i] = "log" })
         = IF CodesSent(handler[c]) THEN 1 ELSE 0

\* C17, every step of a handler: the step that sends the codes appends one
\* row, of the user and the cleaned text of the request; no other step
\* appends a row
C17_LoggedStep ==
  \A c \in ChatIds :
    handler'[c] # handler[c] =>
      IF CodesSent(handler'[c]) /\ ~CodesSent(handler[c])
      THEN /\ Len(activation_logs') = Len(activation_logs) + 1
           /\ SubSeq(activation_logs', 1, Len(activation_logs)) = activation_logs
           /\ \E row \in { activation_logs'[Len(activation_logs')] } :
                /\ row.user_id = handler[c].user
                /\ row.machine_code = clean_machine_code(trim(text_of(handler[c].msg)))
                /\ IsDefaultTriple(row)
      ELSE activation_logs' \in { activation_logs, << >> }

\* C17: a request in which the codes of the four variants are generated
\* writes exactly one activation-log triple: the cleaned machine code, the
\* Professional key of generate, the label of the classifier; no Advanced
\* key and no key of another variant is logged, and a request that
\* generates no codes writes no triple
C17_OneDefaultTriplePerGeneration ==
  /\ []C17_LoggedTriples
  /\ [][C17_LoggedStep]_vars

\* codes were sent for a text with white space around the code, and the
\* triple of the cleaned code was logged
C17_Witness ==
  \E c \in ChatIds :
    /\ CodesSent(handler[c])
    /\ handler[c].pc = "done"
    /\ text_of(handler[c].msg) # clean_machine_code(trim(text_of(handler[c].msg)))
    /\ activation_logs # << >>
    /\ activation_logs[Len(activation_logs)].machine_code = CallCodes[2]

\* C18: a user who is no admin is never served more than max_user_requests
\* code generations between two clear_stats: in every reachable state,
\* also with several messages of the user handled at the same time, the
\* generations served since the last reset and the stored request_count
\* are both at most max_user_requests
C18_NeverServedBeyondLimit ==
  \A u \in UserIds \ admin_ids :
    /\ served[u] <= max_user_requests
    /\ users[u].request_count <= max_user_requests

\* the handler of chat c handles a machine code (a message that is no
\* command, in a dialogue at Start) of an administrator
AdminRequest(c) ==
  /\ handler[c].endpoint = "handle_machine_code"
  /\ handler[c].user \in admin_ids

\* C19, every state of a machine-code request of an administrator: the
\* limit message is never sent and the handler never gets to the automatic
\* ban; if the row read is not banned and the trimmed text is valid, the
\* handler goes on to count, log and send the codes, whatever request_count
\* it read
C19_AdminRequestState ==
  \A c \in ChatIds :
    AdminRequest(c) =>
      /\ handler[c].pc # "ban"
      /\ \A i \in DOMAIN handler[c].sent : handler[c].sent[i].what # "limit"
      /\ \A i \in DOMAIN handler[c].wrote : handler[c].wrote[i] # "ban"
      /\ ( /\ handler[c].db_user.exists
           /\ ~handler[c].db_user.is_banned
           /\ validate_machine_code(trim(text_of(handler[c].msg))) ) =>
             /\ handler[c].pc \in { "count", "log", "done" }
             /\ handler[c].pc = "done" =>
                  /\ KindsSent(handler[c]) = << "codes" >>
                  /\ handler[c].sent[1].to = c

\* C19, every step of a machine-code request of an administrator: is_banned
\* of the administrator stays as it is
C19_AdminRequestStep ==
  \A c \in ChatIds :
    (AdminRequest(c) /\ handler'[c] # handler[c]) =>
      users'[handler[c].user].is_banned = users[handler[c].user].is_banned

\* C19: an administrator is never refused for the usage limit and never
\* banned automatically, whatever request_count is: every valid machine
\* code of an administrator who is not banned yields codes, any number of
\* times
C19_AdminNeverLimited ==
  /\ []C19_AdminRequestState
  /\ [][C19_AdminRequestStep]_vars

\* an administrator whose request_count had reached max_user_requests got
\* codes once more
C19_Witness ==
  \E c \in ChatIds :
    /\ AdminRequest(c)
    /\ handler[c].pc = "done"
    /\ handler[c].db_user.request_count >= max_user_requests
    /\ CodesSent(handler[c])
    /\ users[handler[c].user].request_count > max_user_requests
    /\ ~users[handler[c].user].is_banned

\* the commands documented as admin-only
AdminOnlyCommands == { "stats", "users", "ban", "unban", "say", "clear", "cleanup", "guard" }

\* the handler of chat c handles an admin-only command of a user who is not
\* in admin_ids
NonAdminCommand(c) ==
  /\ handler[c].msg.cmd \in AdminOnlyCommands
  /\ handler[c].user \notin admin_ids

\* the dialogue of chat c was at Start when the command was dispatched
DispatchedAtStart(c) == handler[c].endpoint = handler[c].msg.cmd

\* no step of the handler of an admin-only command of a non-admin changes a
\* user's is_banned or request_count, deletes an activation log, removes a
\* log file or sends a broadcast
NonAdminCommandFrame(c) ==
  (NonAdminCommand(c) /\ handler'[c] # handler[c]) =>
    /\ users' = users
    /\ activation_logs' = activation_logs
    /\ log_files' = log_files
    /\ \A i \in DOMAIN handler'[c].sent :
         handler'[c].sent[i].what \notin { "broadcast", "broadcast_failed" }

\* the handler of an admin-only command of a non-admin, returned: it has
\* sent the admin-only refusal to the chat and done nothing else
OnlyRefused(c) ==
  (NonAdminCommand(c) /\ handler[c].pc = "done") =>
    /\ KindsSent(handler[c]) = << "admin_only" >>
    /\ handler[c].sent[1].to = c
    /\ handler[c].wrote = << >>

\* C20 as stated: an admin-only command issued by a user who is not in
\* admin_ids changes nothing: no is_banned or request_count changes, no
\* activation log is deleted, no log file removed, no broadcast sent, the
\* dialogue state stays Start, and the only effect is the admin-only
\* refusal message
C20_NonAdminCommandOnlyRefused ==
  /\ [](\A c \in ChatIds : OnlyRefused(c))
  /\ [][\A c \in ChatIds :
          /\ NonAdminCommandFrame(c)
          /\ (NonAdminCommand(c) /\ handler'[c] # handler[c]) =>
               dialogue[c] = "Start" /\ dialogue' = dialogue]_vars

\* C20, amended: an admin-only command issued by a user who is not in
\* admin_ids changes no is_banned or request_count, deletes no activation
\* log, removes no log file and sends no broadcast. In a chat whose
\* dialogue is at Start the dialogue stays at Start and the only effect is
\* the admin-only refusal message; in a chat whose dialogue is at
\* AdminBroadcast the message goes to handle_broadcast, which sends no
\* message at all and returns the dialogue to Start
C20_NonAdminCommandRefusedAtStart ==
  /\ [](\A c \in ChatIds :
          IF DispatchedAtStart(c) THEN OnlyRefused(c)
          ELSE (NonAdminCommand(c) /\ handler[c].pc = "done") =>
                 /\ handler[c].endpoint = "handle_broadcast"
                 /\ handler[c].sent = << >>
                 /\ handler[c].wrote = << "dialogue" >>
                 /\ dialogue[c] = "Start")
  /\ [][\A c \in ChatIds :
          /\ NonAdminCommandFrame(c)
          /\ (NonAdminCommand(c) /\ handler'[c] # handler[c]) =>
               /\ \A d \in ChatIds \ { c } : dialogue'[d] = dialogue[d]
               /\ dialogue'[c] = "Start"
               /\ handler[c].pc = "run" => (dialogue[c] = "Start") = DispatchedAtStart(c)]_vars

\* user 2 asked for user 1 to be banned and was refused; user 1 is not banned
C20_Witness ==
  \E c \in ChatIds :
    /\ NonAdminCommand(c)
    /\ DispatchedAtStart(c)
    /\ handler[c].pc = "done"
    /\ handler[c].msg = [cmd |-> "ban", text |-> << "1" >>]
    /\ KindsSent(handler[c]) = << "admin_only" >>
    /\ users[1].exists /\ ~users[1].is_banned

\* C21: when an administrator confirms a broadcast, the text delivered to
\* the users is the message the administrator supplied to /say, the one the
\* confirmation prompt showed
C21_BroadcastTextIsSaidMessage ==
  \A c \in ChatIds :
    \A i \in DOMAIN handler[c].sent :
      handler[c].sent[i].what \in { "broadcast", "broadcast_failed" } =>
        handler[c].sent[i].text = prompted[c]

\* ------------------------------------------------------------ claims: calculate_uptime

\* a field of two decimal digits
TwoDigits(n) == << DecimalDigits[(n \div 10) + 1], DecimalDigits[(n % 10) + 1] >>

\* HH:MM:SS
ClockText(h, m, sec) ==
  TwoDigits(h) \o << ":" >> \o TwoDigits(m) \o << ":" >> \o TwoDigits(sec)

UptimeCalls == { i \in DOMAIN calls : calls[i].op = "calculate_uptime" }

\* C22: for every start_time <= now, calculate_uptime decomposes the
\* elapsed seconds e = now - start_time into days = e / 86400, hours < 24,
\* minutes < 60 and seconds < 60 with days*86400 + hours*3600 + minutes*60
\* + seconds = e, renders the last three as two-digit fields HH:MM:SS
\* (3661 seconds gives "01:01:01") and puts the day count before them only
\* when days > 0
C22_UptimeDaysAndClock ==
  \A i \in UptimeCalls :
    \E e \in { calls[i].at - calls[i].arg } :
      /\ e >= 0
      /\ \E d \in { e \div 86400 }, h \in 0..23, m \in 0..59 :
           \E sec \in { e - d * 86400 - h * 3600 - m * 60 } :
             /\ sec \in 0..59
             /\ calls[i].ret =
                  IF d > 0
                  THEN to_string(d) \o << " ", "d", "a", "y", "s", ",", " " >> \o ClockText(h, m, sec)
                  ELSE ClockText(h, m, sec)
             /\ Len(calls[i].ret) = 8 + (IF d > 0 THEN Len(to_string(d)) + 7 ELSE 0)
      /\ e = 3661 => calls[i].ret = << "0", "1", ":", "0", "1", ":", "0", "1" >>

\* the uptime of 3661 seconds was computed, and one of a hundred days
C22_Witness ==
  /\ \E i \in UptimeCalls :
       /\ calls[i].at - calls[i].arg = 3661
       /\ calls[i].ret = << "0", "1", ":", "0", "1", ":", "0", "1" >>
  /\ \E i \in UptimeCalls :
       /\ calls[i].at - calls[i].arg = 8643661
       /\ calls[i].ret = << "1", "0", "0", " ", "d", "a", "y", "s", ",", " ",
                            "0", "1", ":", "0", "1", ":", "0", "1" >>

\* ------------------------------------------------------------ claims: the ban and the limit

\* the handler of chat c handles a machine code or /start of a user whose
\* row it found banned
BannedRequest(c) ==
  /\ handler[c].endpoint \in { "handle_machine_code", "start" }
  /\ handler[c].db_user.exists
  /\ handler[c].db_user.is_banned

\* C23, every state: a handler that found its user banned has returned
\* with the ban notice, sent to the chat, and has written nothing (but the
\* users row, if start had just made it when the user was banned)
C23_BannedRequestState ==
  \A c \in ChatIds :
    BannedRequest(c) =>
      /\ handler[c].pc = "done"
      /\ KindsSent(handler[c]) = << "banned" >>
      /\ handler[c].sent[1].to = c
      /\ \A i \in DOMAIN handler[c].wrote : handler[c].wrote[i] = "insert_user"

\* C23, every step in which handle_machine_code or start reads the row of
\* its user: if the row is banned, the handler returns in that step, and no
\* request_count, no is_banned and no activation log changes; an
\* administrator is treated like any other user
C23_BannedRequestStep ==
  \A c \in ChatIds :
    ( /\ handler[c].endpoint \in { "handle_machine_code", "start" }
      /\ handler[c].pc \in { "run", "reselect" }
      /\ handler'[c] # handler[c]
      /\ users[handler[c].user].exists
      /\ users[handler[c].user].is_banned ) =>
        /\ handler'[c].pc = "done"
        /\ KindsSent(handler'[c]) = << "banned" >>
        /\ users' = users
        /\ activation_logs' = activation_logs
        /\ served' = served

\* C23: a user whose is_banned is set when the handling of their message
\* begins is never served: the handler sends only the ban notice, derives
\* no key, leaves request_count unchanged and writes no activation log;
\* this holds for administrators too
C23_BannedNeverServed ==
  /\ []C23_BannedRequestState
  /\ [][C23_BannedRequestStep]_vars

\* a banned administrator sent a valid machine code and got the ban notice
C23_Witness ==
  \E c \in ChatIds :
    /\ BannedRequest(c)
    /\ handler[c].endpoint = "handle_machine_code"
    /\ handler[c].user \in admin_ids
    /\ validate_machine_code(trim(text_of(handler[c].msg)))
    /\ KindsSent(handler[c]) = << "banned" >>

\* the handler of chat c handles a message that is no command of a user
\* who is no admin and whose row it found at the limit
LimitRequest(c) ==
  /\ handler[c].endpoint = "handle_machine_code"
  /\ handler[c].user \notin admin_ids
  /\ handler[c].db_user.exists
  /\ handler[c].db_user.request_count >= max_user_requests

\* C24, every state: a handler that found its user at the limit sends no
\* codes and writes no count; unless the user was banned already, it sends
\* the limit message and then bans the user, whether the text is a valid
\* machine code or not
C24_LimitRequestState ==
  \A c \in ChatIds :
    LimitRequest(c) =>
      /\ ~CodesSent(handler[c])
      /\ \A i \in DOMAIN handler[c].wrote : handler[c].wrote[i] \notin { "count", "log" }
      /\ ~handler[c].db_user.is_banned =>
           /\ handler[c].pc \in { "ban", "done" }
           /\ KindsSent(handler[c]) = << "limit" >>
           /\ handler[c].wrote = IF handler[c].pc = "done" THEN << "ban" >> ELSE << >>

\* C24, every step: the step after the limit message marks the user
\* banned; a request_count grows only by one, and only in the step of a
\* handler of that user that found the row not banned, found it under the
\* limit unless the user is an admin, and found the text valid
C24_LimitRequestStep ==
  /\ \A c \in ChatIds :
       (LimitRequest(c) /\ handler[c].pc = "ban" /\ handler'[c] # handler[c]) =>
         /\ users'[handler[c].user].is_banned
         /\ users'[handler[c].user].request_count = users[handler[c].user].request_count
  /\ \A u \in UserIds :
       users'[u].request_count > users[u].request_count =>
         /\ users'[u].request_count = users[u].request_count + 1
         /\ \E c \in ChatIds :
              /\ handler'[c] # handler[c]
              /\ handler[c].endpoint = "handle_machine_code"
              /\ handler[c].user = u
              /\ handler[c].db_user.exists
              /\ ~handler[c].db_user.is_banned
              /\ u \in admin_ids \/ handler[c].db_user.request_count < max_user_requests
              /\ validate_machine_code(trim(text_of(handler[c].msg)))
              /\ CodesSent(handler[c]) \/ handler'[c].pc = "log"

BroadcastSent(h) == \E i \in DOMAIN h.sent : h.sent[i].what \in { "broadcast", "broadcast_failed" }

\* C25, every state: while the dialogue of a chat is at AdminBroadcast, the
\* chat has no update in a handler, or the /say of an administrator that
\* brought it there has just returned, or the next message is with
\* handle_broadcast, whatever the message is and whoever sent it
C25_AdminBroadcastState ==
  \A c \in ChatIds :
    dialogue[c] = "AdminBroadcast" =>
      \/ handler[c].pc = "idle"
      \/ /\ handler[c].pc = "done"
         /\ handler[c].msg.cmd = "say"
         /\ handler[c].user \in admin_ids
         /\ trim(handler[c].msg.text) # << >>
      \/ /\ handler[c].pc = "run"
         /\ handler[c].endpoint = "handle_broadcast"

\* C25, every step: the dialogue of a chat gets to AdminBroadcast only by
\* the /say of an administrator with a message that is not empty; the
\* handler of the next message returns it to Start; and a broadcast is
\* sent only by that handler, for an administrator whose trimmed text is
\* the reply "confirm"
C25_AdminBroadcastStep ==
  \A c \in ChatIds :
    /\ (dialogue'[c] = "AdminBroadcast" /\ dialogue[c] # "AdminBroadcast") =>
         /\ handler[c].pc = "run"
         /\ handler[c].msg.cmd = "say"
         /\ handler[c].user \in admin_ids
         /\ trim(handler[c].msg.text) # << >>
    /\ (dialogue[c] = "AdminBroadcast" /\ handler[c].pc = "run" /\ handler'[c] # handler[c]) =>
         /\ dialogue'[c] = "Start"
         /\ handler'[c].pc = "done"
    /\ (BroadcastSent(handler'[c]) /\ handler'[c] # handler[c]) =>
         /\ dialogue[c] = "AdminBroadcast"
         /\ handler[c].user \in admin_ids
         /\ trim(text_of(handler[c].msg)) = Confirm

Attempts(h, u) ==
  { i \in DOMAIN h.sent : h.sent[i].to = u /\ h.sent[i].what \in { "broadcast", "broadcast_failed" } }

\* the entries of handler h of one kind
EntriesOf(h, what) == { i \in DOMAIN h.sent : h.sent[i].what = what }

\* the users of the table whose is_banned is false
NonBanned == { u \in UserIds : users[u].exists /\ ~users[u].is_banned }

\* C26: a confirmed broadcast (the step of handle_broadcast that reports the
\* counts) attempts delivery exactly once to every user whose is_banned is
\* false and to no banned user, whichever deliveries fail, and the success
\* count and the failure count of the report are the numbers of delivered
\* and failed attempts, their sum the number of non-banned users
C26_ConfirmedBroadcastStep ==
  \A c \in ChatIds :
    (handler'[c] # handler[c] /\ EntriesOf(handler'[c], "broadcast_done") # { }) =>
      /\ \A u \in NonBanned : Cardinality(Attempts(handler'[c], u)) = 1
      /\ \A u \in UserIds \ NonBanned : Attempts(handler'[c], u) = { }
      /\ \A i \in EntriesOf(handler'[c], "broadcast_done") :
           \E success_count, failed_count \in 0 .. Cardinality(UserIds) :
             /\ handler'[c].sent[i].text = result_msg(success_count, failed_count)
             /\ success_count = Cardinality(EntriesOf(handler'[c], "broadcast"))
             /\ failed_count = Cardinality(EntriesOf(handler'[c], "broadcast_failed"))
             /\ success_count + failed_count = Cardinality(NonBanned)

C26_BroadcastOncePerNonBannedUser == [][C26_ConfirmedBroadcastStep]_vars

\* a broadcast whose first delivery failed and whose next was delivered
C26_Witness ==
  \E c \in ChatIds :
    /\ EntriesOf(handler[c], "broadcast_done") # { }
    /\ \E i, j \in DOMAIN handler[c].sent :
         /\ i < j
         /\ handler[c].sent[i].what = "broadcast_failed"
         /\ handler[c].sent[j].what = "broadcast"

\* a broadcast that passed over a banned user and reported one delivery
C26_WitnessBannedPassedOver ==
  \E c \in ChatIds :
    /\ EntriesOf(handler[c], "broadcast_done") # { }
    /\ \E u \in UserIds : users[u].is_banned
    /\ \E i \in DOMAIN handler[c].sent : handler[c].sent[i].text = result_msg(1, 0)

\* ------------------------------------------------------------ claims: the strings that are hashed

InputCalls == { i \in DOMAIN calls : calls[i].op = "hash_input" }

\* the two strings are hashed with the same function: MD5 for Legacy,
\* Keccak-384 for the other variants
SameFamily(i, j) == (calls[i].arg[1] = "Legacy") = (calls[j].arg[1] = "Legacy")

Last(str) == str[Len(str)]

\* C27: the strings hashed for two different (variant, tier) pairs never
\* coincide, whatever the two machine codes are, equal or different; the
\* two Legacy wraps, and the six strings with an appended literal, already
\* differ in their last character
C27_HashInputsNeverCoincide ==
  \A i, j \in InputCalls :
    << calls[i].arg[1], calls[i].arg[2] >> # << calls[j].arg[1], calls[j].arg[2] >> =>
      /\ calls[i].ret # calls[j].ret
      /\ SameFamily(i, j) => Last(calls[i].ret) # Last(calls[j].ret)

\* two forms with an appended literal, for two different codes that make the
\* two strings as long as each other
C27_Witness ==
  \E i, j \in InputCalls :
    /\ calls[i].arg[1] # calls[j].arg[1]
    /\ calls[i].arg[1] # "Legacy" /\ calls[j].arg[1] # "Legacy"
    /\ calls[i].arg[3] # calls[j].arg[3]
    /\ Len(calls[i].ret) = Len(calls[j].ret)

====
